---- MODULE Spec2Model ----
(***************************************************************************)
(* Trove: the upload queue, the chunk workers, the manifest serialization  *)
(* chain and the download loop of the vault client, as a state machine,    *)
(* together with the manifest functions of manifest.ts and the session     *)
(* life cycle of the vault (createVault, unlockVault, logout).             *)
(*                                                                         *)
(* React specifics that the model keeps:                                   *)
(*  - processQueue and uploadFile are closures of one render of the hook.  *)
(*    The effect that runs processQueue fires after a render in which      *)
(*    uploadQueue.length changed; the closures it runs see the uploadQueue *)
(*    and the manifest of that render.  An upload started from such a      *)
(*    closure keeps it (fields snapQ, snapM of a run) and its `finally`    *)
(*    calls the processQueue of the same closure.                          *)
(*  - setUploadQueue(fn) is a functional update: it is applied to the live *)
(*    queue.  A render follows a state update before the next event.       *)
(***************************************************************************)
EXTENDS Integers, Sequences, FiniteSets, TLC

\* ---------------------------------------------------------------- constants
CHUNK_SIZE == 10000000
MAX_CONCURRENT_UPLOADS == 3
MAX_CONCURRENT_CHUNKS == 3
MAX_RETRIES == 3
RETRY_DELAY_MS == 1000
\* sodium.crypto_aead_xchacha20poly1305_ietf_NPUBBYTES and _ABYTES
NPUBBYTES == 24
ABYTES == 16
IDLE_TIMEOUT_MS == 900000
IDLE_WARNING_MS == 780000
\* the period of useIdleTimeout's setInterval
IDLE_CHECK_MS == 1000

\* ------------------------------------------------------------------- bounds
\* files the user can enqueue in Spec (two uploads side by side)
MaxItems == 2
\* files the user can enqueue in SpecQueue (more items than upload slots)
MaxQueueItems == 4
\* transient store failures the environment may inject in one behaviour
MaxFaults == 1
\* times one queue item may be handed to uploadFile before exploration stops
MaxStarts == 2
\* folders the user may create
MaxFolders == 1
\* entries the manifest functions may create in SpecManifest
MaxEntries == 3
\* createVault / unlockVault calls the user may make in SpecSession
MaxSessions == 3
\* logouts in SpecSession
MaxLogouts == 2
\* confirmDelete calls
MaxDeletes == 2
\* bytes of a plaintext in SpecCrypto
MaxPlain == 2
\* times the clock is advanced in SpecIdle
MaxPasses == 4
\* offline events in SpecIdle
MaxOfflines == 2

\* file sizes offered per specification
SizesSpec == {0}
SizesQueue == {0}
SizesFile == {2 * CHUNK_SIZE + CHUNK_SIZE \div 2}
SizesDownload == {0, 1, CHUNK_SIZE, 2 * CHUNK_SIZE + CHUNK_SIZE \div 2, 3 * CHUNK_SIZE + 1}
FileNames == {"a"}
\* file and folder names offered in SpecNames: equal ignoring case
CasedNames == {"a", "A"}
\* seed phrases typed on the Login page: s1 is the phrase of the vault, s2 another
\* valid phrase; the Create page makes the vault of s1
Seeds == {"s1", "s2"}
CreateSeeds == {"s1"}
LogoutTriggers == {"button", "idle", "offline"}
\* by how much the clock is advanced in one step (ms)
Durations == {1000, 120000, 779000}

VARIABLES
    files,            \* the files the user can pick: id -> [size, name], and the
                      \* folder shown when they are picked (parent)
    faultsLeft,       \* transient store failures still available
    uploadQueue,      \* useUpload: uploadQueue state
    activeUploadsRef, \* useUpload: activeUploadsRef.current
    cancelledRef,     \* useUpload: cancelledRef.current
    processingRef,    \* useUpload: processingRef.current
    runs,             \* the uploadFile invocations that still have code to run
    starts,           \* item id -> number of uploadFile invocations so far
    uploadRecords,    \* store: rows of table uploads
    blobs,            \* store: objects of the bucket, path -> ciphertext
    encryptionKeyRef, \* VaultContext: encryptionKeyRef.current
    vaultClientRef,   \* VaultContext: vaultClientRef.current
    vaultUid,         \* VaultContext: state.vaultUid
    manifestRef,      \* VaultContext: manifestRef.current = state.manifest
    storedManifest,   \* store: vaults.manifest_cipher of the vault's row
    manifestUpdateLockRef, \* VaultContext: the promise the next update awaits
    calls,            \* updateManifest invocations that have not finished
    foldersMade,      \* handleCreateFolder invocations so far
    nextFile,         \* the next file the user has not enqueued yet
    attempts,         \* history: <<item, chunk>> -> chunk attempts begun
    cancelHist,       \* history: items cancelled while uploading with chunks missing
    ended,            \* history: item id -> the outcomes its uploadFile invocations ended with
    dl,               \* useDownload: the running downloadFile call, or NoDl
    delivered,        \* what downloadBlob was last called with, or NoData
    forest,           \* manifest.ts: the manifest value the manifest functions are applied to
    nextId,           \* manifest.ts: entry ids generateFileUid has handed out so far
    out,              \* manifest.ts: the last call of a manifest function and what it returned
    state,            \* VaultContext: isUnlocked, isLoading, error of the reducer state
    vaultClientCache, \* supabase.ts: the vault uids vaultClientCache holds a client for
    vaultRows,        \* store: the uids that have a row in table vaults
    keyHeap,          \* the key arrays deriveKeys has returned: their bytes, and whether zeroed
    keyObj,           \* which array of keyHeap encryptionKeyRef.current is (0: null)
    op,               \* the running createVault / unlockVault call, or NoOp
    hist,             \* history of the session calls (see NoHist)
    timer,            \* the route shown, the clock, and useIdleTimeout's ref and state
    cx,               \* crypto.ts: the last encrypt / decrypt call and what it returned
    del               \* Vault page: the running confirmDelete call, or NoDel

vars == <<files, faultsLeft, uploadQueue, activeUploadsRef, cancelledRef,
          processingRef, runs, starts, uploadRecords, blobs, encryptionKeyRef,
          vaultClientRef, vaultUid, manifestRef, storedManifest,
          manifestUpdateLockRef, calls, foldersMade, nextFile, attempts,
          cancelHist, ended, dl, delivered, forest, nextId, out, state,
          vaultClientCache, vaultRows, keyHeap, keyObj, op, hist, timer, cx, del>>

\* the route and the idle timer (SpecIdle), the crypto calls (SpecCrypto) and the
\* delete of the Vault page (SpecDelete)
extraVars == <<timer, cx, del>>
\* the state of the manifest functions' harness (SpecManifest)
manifestVars == <<forest, nextId, out>>
\* the state of the session calls (SpecSession), apart from the refs and the manifest
sessionVars == <<state, vaultClientCache, vaultRows, keyHeap, keyObj, op, hist>>
\* what updateManifest leaves alone of them
sessionKept == <<state, vaultClientCache, vaultRows, keyHeap, keyObj, op>>
\* the state of the hooks, the context and the store
appVars == <<files, faultsLeft, uploadQueue, activeUploadsRef, cancelledRef,
             processingRef, runs, starts, uploadRecords, blobs, encryptionKeyRef,
             vaultClientRef, vaultUid, manifestRef, storedManifest,
             manifestUpdateLockRef, calls, foldersMade, nextFile, attempts,
             cancelHist, ended, dl, delivered>>

\* ------------------------------------------------------------------ helpers
Min(a, b) == IF a < b THEN a ELSE b
Range(s) == {s[i] : i \in 1..Len(s)}
RECURSIVE SumSeq(_)
SumSeq(s) == IF s = << >> THEN 0 ELSE Head(s) + SumSeq(Tail(s))

NullId == <<"null", 0, 0>>
NoKey == "none"
SessionKey == "K"
SessionVault == "V"

\* ------------------------------------------------------------ chunks.ts
\* calculateChunkCount rounding down
calculateChunkCountFloor(fileSize) == fileSize \div CHUNK_SIZE

calculateChunkCount(fileSize) ==
    IF fileSize % CHUNK_SIZE = 0 THEN fileSize \div CHUNK_SIZE
    ELSE fileSize \div CHUNK_SIZE + 1

\* readChunk: the bytes [start, end) of the file
readChunk(file, chunkIndex) ==
    LET start == chunkIndex * CHUNK_SIZE
        end == Min(start + CHUNK_SIZE, files[file].size)
    IN [file |-> file, start |-> start, end |-> end]

ChunkLen(chunk) == chunk.end - chunk.start

\* crypto: encrypt binds the plaintext to the key; decrypt opens it with the same key only
encrypt(plaintext, key) == [key |-> key, plain |-> plaintext]
DecryptOk(cipher, key) == cipher.key = key
decrypt(cipher, key) == cipher.plain

\* ------------------------------------------------------------ crypto.ts, on bytes
\* A byte of a blob is a cell: what made it (kind "r" a random byte, "x" a plaintext
\* byte under the key stream, "t" a byte of the authentication tag), what it was made
\* from, and whether a bit of it was flipped since.
Cell(kind, m, key, nonce, body, j) ==
    [kind |-> kind, m |-> m, key |-> key, nonce |-> nonce, body |-> body, j |-> j,
     f |-> FALSE]
Flip(cell) == [cell EXCEPT !.f = ~@]

\* sodium.randombytes_buf(n); r is the draw
randombytes_buf(n, r) == [j \in 1..n |-> Cell("r", r, NoKey, << >>, << >>, j)]

\* the tag of libsodium's AEAD over a ciphertext body, under a nonce and a key
Poly1305(body, nonce, key) ==
    [j \in 1..ABYTES |-> Cell("t", 0, key, nonce, body, j)]

\* sodium.crypto_aead_xchacha20poly1305_ietf_encrypt(m, null, null, nonce, key):
\* the message under the key stream of (key, nonce), then the tag
crypto_aead_encrypt(m, nonce, key) ==
    LET body == [j \in 1..Len(m) |-> Cell("x", m[j], key, nonce, << >>, j)]
    IN body \o Poly1305(body, nonce, key)

\* what a function returned, or the message of the Error it threw
Resolved(data) == [ok |-> TRUE, data |-> data, error |-> ""]
Thrown(message) == [ok |-> FALSE, data |-> << >>, error |-> message]
NoResult == Thrown("not called")

\* a ciphertext byte with the key stream of (key, nonce) taken off at position j
Unmask(cell, nonce, key, j) ==
    IF cell.kind = "x" /\ cell.key = key /\ cell.nonce = nonce /\ cell.j = j /\ ~cell.f
    THEN cell.m ELSE -1

\* sodium.crypto_aead_xchacha20poly1305_ietf_decrypt(null, c, null, nonce, key):
\* throws unless the last ABYTES bytes are the tag of the rest under (nonce, key)
crypto_aead_decrypt(c, nonce, key) ==
    IF Len(c) < ABYTES THEN Thrown("ciphertext is too short")
    ELSE LET body == SubSeq(c, 1, Len(c) - ABYTES)
             tag == SubSeq(c, Len(c) - ABYTES + 1, Len(c))
         IN IF tag # Poly1305(body, nonce, key)
            THEN Thrown("ciphertext cannot be decrypted using that key")
            ELSE Resolved([j \in 1..Len(body) |-> Unmask(body[j], nonce, key, j)])

\* encrypt(plaintext, key): a fresh nonce, then nonce ++ ciphertext
encryptBlob(plaintext, key, r) ==
    LET nonce == randombytes_buf(NPUBBYTES, r)
        ciphertext == crypto_aead_encrypt(plaintext, nonce, key)
    IN nonce \o ciphertext

\* decrypt without the split: the whole input handed to the library as ciphertext
decryptBlobWhole(ciphertextWithNonce, key) ==
    LET nonceLength == NPUBBYTES
        minLength == nonceLength + ABYTES
    IN IF Len(ciphertextWithNonce) < minLength
       THEN Thrown("Invalid ciphertext: too short")
       ELSE LET nonce == SubSeq(ciphertextWithNonce, 1, nonceLength)
                res == crypto_aead_decrypt(ciphertextWithNonce, nonce, key)
            IN IF res.ok THEN res
               ELSE Thrown("Decryption failed: invalid key or corrupted data")

\* decrypt(ciphertextWithNonce, key)
decryptBlob(ciphertextWithNonce, key) ==
    LET nonceLength == NPUBBYTES
        minLength == nonceLength + ABYTES
    IN IF Len(ciphertextWithNonce) < minLength
       THEN Thrown("Invalid ciphertext: too short")
       ELSE LET nonce == SubSeq(ciphertextWithNonce, 1, nonceLength)
                ciphertext == SubSeq(ciphertextWithNonce, nonceLength + 1,
                                     Len(ciphertextWithNonce))
                res == crypto_aead_decrypt(ciphertext, nonce, key)
            IN IF res.ok THEN res
               ELSE Thrown("Decryption failed: invalid key or corrupted data")

\* no encrypt call yet
NoCx == [phase |-> "idle", plaintext |-> << >>, key |-> NoKey, blob |-> << >>,
         altered |-> "no", with |-> NoKey, result |-> NoResult]

\* the values a call passes for a parameter: a number, a string, or nothing at all
Num(n) == [t |-> "number", n |-> n, s |-> ""]
Str(s) == [t |-> "string", n |-> 0, s |-> s]
Undefined == [t |-> "undefined", n |-> 0, s |-> ""]
\* `${v}` in a template literal
Template(v) ==
    IF v.t = "number" THEN ToString(v.n) ELSE IF v.t = "string" THEN v.s ELSE "undefined"

\* deriveChunkUid(fileUid, chunkIndex): the hash of `${fileUid}:${chunkIndex}`, taken
\* as one-to-one on its input
deriveChunkUid(fileUid, chunkIndex) == <<fileUid, Template(chunkIndex)>>

\* getChunkPath(vaultUid, fileUid, chunkPathPepper, chunkIndex):
\* vaultUid "/" deriveChunkUid(fileUid, chunkPathPepper, chunkIndex), and deriveChunkUid
\* has two parameters: its third argument is dropped
getChunkPath(vault, fileUid, chunkPathPepper, chunkIndex) ==
    <<vault>> \o deriveChunkUid(fileUid, chunkPathPepper)

\* concatenateChunks: every chunk copied at the running offset
RECURSIVE Place(_, _)
Place(chunks, offset) ==
    IF chunks = << >> THEN << >>
    ELSE <<[offset |-> offset, chunk |-> Head(chunks)]>>
         \o Place(Tail(chunks), offset + ChunkLen(Head(chunks)))
concatenateChunks(chunks) ==
    [length |-> SumSeq([i \in 1..Len(chunks) |-> ChunkLen(chunks[i])]),
     parts |-> Place(chunks, 0)]

\* ------------------------------------------------------------ manifest.ts
\* String.prototype.toLowerCase on the names of the model; a name is <<base, n>>
toLowerCase(name) ==
    <<CASE name[1] = "A" -> "a" [] name[1] = "B" -> "b" [] OTHER -> name[1], name[2]>>

\* nameExistsInFolder comparing the names as they are
nameExistsInFolderExact(manifest, name, parentId) ==
    \E i \in 1..Len(manifest) :
        manifest[i].parent = parentId /\ manifest[i].name = name

nameExistsInFolder(manifest, name, parentId) ==
    \E i \in 1..Len(manifest) :
        /\ manifest[i].parent = parentId
        /\ toLowerCase(manifest[i].name) = toLowerCase(name)

RECURSIVE NextFree(_, _, _, _)
NextFree(manifest, base, parentId, counter) ==
    IF nameExistsInFolder(manifest, <<base, counter>>, parentId)
    THEN NextFree(manifest, base, parentId, counter + 1)
    ELSE <<base, counter>>

\* a name is <<base, n>>: n = 0 is the plain name, n > 0 is "base (n)"
getUniqueName(manifest, base, parentId) ==
    IF ~nameExistsInFolder(manifest, <<base, 0>>, parentId) THEN <<base, 0>>
    ELSE NextFree(manifest, base, parentId, 1)

createFileEntry(id, name, parent, fileUid, size, chunkCount) ==
    [id |-> id, name |-> name, type |-> "file", parent |-> parent,
     file_uid |-> fileUid, size |-> size, chunk_count |-> chunkCount]

createFolder(id, name, parent) ==
    [id |-> id, name |-> name, type |-> "folder", parent |-> parent,
     file_uid |-> 0, size |-> 0, chunk_count |-> 0]

addEntry(manifest, entry) == Append(manifest, entry)

addEntries(manifest, entries) == manifest \o entries

\* manifest.find((e) => e.id === entryId): the index of the first such entry, 0 if none
FindIndex(manifest, entryId) ==
    IF \E i \in 1..Len(manifest) : manifest[i].id = entryId
    THEN CHOOSE i \in 1..Len(manifest) :
             manifest[i].id = entryId /\ \A j \in 1..(i - 1) : manifest[j].id # entryId
    ELSE 0

\* the nesting the call stack is taken to hold: a recursion that goes deeper than a
\* manifest without a cycle can nest never returns (RangeError)
CallStackLimit(manifest) == Len(manifest) + 1

\* collectDescendants taking the children of the folder only
RECURSIVE collectChildren(_, _, _, _, _)
collectChildren(manifest, parentId, i, depth, acc) ==
    IF i > Len(manifest) THEN acc
    ELSE LET e == manifest[i]
         IN IF e.parent # parentId THEN collectChildren(manifest, parentId, i + 1, depth, acc)
            ELSE collectChildren(manifest, parentId, i + 1, depth,
                     [acc EXCEPT !.ids = @ \cup {e.id},
                                 !.files = IF e.type = "file" THEN Append(@, e) ELSE @])

\* removeEntry's collectDescendants(parentId): manifest.forEach from entry i on, at the
\* given recursion depth; acc is idsToRemove and removedFiles so far
RECURSIVE collectDescendants(_, _, _, _, _)
collectDescendants(manifest, parentId, i, depth, acc) ==
    IF acc.threw \/ i > Len(manifest) THEN acc
    ELSE LET e == manifest[i]
             added == [acc EXCEPT !.ids = @ \cup {e.id}]
         IN IF e.parent # parentId
            THEN collectDescendants(manifest, parentId, i + 1, depth, acc)
            ELSE IF e.type = "file"
            THEN collectDescendants(manifest, parentId, i + 1, depth,
                     [added EXCEPT !.files = Append(@, e)])
            ELSE IF depth >= CallStackLimit(manifest)
            THEN [added EXCEPT !.threw = TRUE]
            ELSE collectDescendants(manifest, parentId, i + 1, depth,
                     collectDescendants(manifest, e.id, 1, depth + 1, added))

\* threw: the call ended in an exception instead of returning
removeEntry(manifest, entryId) ==
    LET at == FindIndex(manifest, entryId)
    IN IF at = 0 THEN [manifest |-> manifest, removedFiles |-> << >>, threw |-> FALSE]
       ELSE LET entry == manifest[at]
                first == [ids |-> {entryId},
                          files |-> IF entry.type = "file" THEN <<entry>> ELSE << >>,
                          threw |-> FALSE]
                acc == IF entry.type = "folder"
                       THEN collectDescendants(manifest, entryId, 1, 1, first)
                       ELSE first
            IN IF acc.threw
               THEN [manifest |-> manifest, removedFiles |-> << >>, threw |-> TRUE]
               ELSE [manifest |-> SelectSeq(manifest, LAMBDA e : e.id \notin acc.ids),
                     removedFiles |-> acc.files, threw |-> FALSE]

RECURSIVE removeEntries(_, _)
removeEntries(manifest, entryIds) ==
    IF entryIds = << >>
    THEN [manifest |-> manifest, removedFiles |-> << >>, threw |-> FALSE]
    ELSE LET result == removeEntry(manifest, Head(entryIds))
         IN IF result.threw THEN result
            ELSE LET rest == removeEntries(result.manifest, Tail(entryIds))
                 IN [manifest |-> rest.manifest,
                     removedFiles |-> result.removedFiles \o rest.removedFiles,
                     threw |-> rest.threw]

renameEntry(manifest, entryId, newName) ==
    [i \in 1..Len(manifest) |->
        IF manifest[i].id = entryId THEN [manifest[i] EXCEPT !.name = newName]
        ELSE manifest[i]]

moveEntry(manifest, entryId, newParentId) ==
    [i \in 1..Len(manifest) |->
        IF manifest[i].id = entryId THEN [manifest[i] EXCEPT !.parent = newParentId]
        ELSE manifest[i]]

\* a.localeCompare(b) on the names of the model: by base, then "base" before "base (n)"
NameRank(base) == CASE base = "a" -> 1 [] base = "b" -> 2 [] OTHER -> 3
localeCompare(a, b) ==
    IF NameRank(a[1]) # NameRank(b[1]) THEN NameRank(a[1]) - NameRank(b[1])
    ELSE a[2] - b[2]

\* the comparator without its type test
compareByName(a, b) == localeCompare(a.name, b.name)

\* the comparator of getEntriesInFolder: folders first, then by name
compareEntries(a, b) ==
    IF a.type # b.type THEN (IF a.type = "folder" THEN -1 ELSE 1)
    ELSE localeCompare(a.name, b.name)

\* Array.prototype.sort(compareEntries); the sort is stable
RECURSIVE InsertSorted(_, _)
InsertSorted(sorted, e) ==
    IF sorted = << >> THEN <<e>>
    ELSE IF compareEntries(e, sorted[Len(sorted)]) < 0
    THEN Append(InsertSorted(SubSeq(sorted, 1, Len(sorted) - 1), e), sorted[Len(sorted)])
    ELSE Append(sorted, e)
RECURSIVE sort(_)
sort(s) ==
    IF s = << >> THEN << >>
    ELSE InsertSorted(sort(SubSeq(s, 1, Len(s) - 1)), s[Len(s)])

getEntriesInFolder(manifest, folderId) ==
    sort(SelectSeq(manifest, LAMBDA entry : entry.parent = folderId))

\* no manifest function has been called yet, or the last one returned a manifest only
NoOut == [op |-> "none", arg |-> NullId, before |-> << >>, manifest |-> << >>,
          entries |-> << >>, threw |-> FALSE]

\* ------------------------------------------------------------ useUpload.ts
Workers == 1..MAX_CONCURRENT_CHUNKS
IdleWorker == [pc |-> "none", chunk |-> 0, retries |-> 0, delay |-> 0]
Terminal(w) == w.pc \in {"none", "done", "thrown", "cancelled"}
FileUid(item) == item
RunId(r) == <<r.item, r.no>>
Zombie(r) == r.phase = "ended"

\* uploadFile(item, client, encryptionKey): key is the value of the key at the call, obj
\* the array that was passed (the one logout zeroes), vault the vaultUid of the render
NewRun(item, no, snapQ, snapM) ==
    [item |-> item, no |-> no, phase |-> "insert", key |-> encryptionKeyRef,
     obj |-> keyObj, vault |-> vaultUid,
     snapQ |-> snapQ, snapM |-> snapM, chunkQueue |-> << >>,
     workers |-> [w \in Workers |-> IdleWorker], completedChunks |-> 0]

\* the bytes of a key after sodium.memzero
ZeroedKey == "zeroed"
\* the key uploadFile encrypts with: the bytes its array holds now
HeldKey(r) == IF keyHeap[r.obj].zeroed THEN ZeroedKey ELSE r.key

\* the ids of the items a render's uploadQueue shows as pending, in queue order
PendingIds(queue) ==
    LET p == SelectSeq(queue, LAMBDA it : it.status = "pending")
    IN [i \in 1..Len(p) |-> p[i].id]

\* the hook's mutable state, threaded through the synchronous code of one handler
Cur == [q |-> uploadQueue, active |-> activeUploadsRef,
        cancelled |-> cancelledRef, processing |-> processingRef,
        runs |-> runs, starts |-> starts, ended |-> ended, ok |-> TRUE]

\* processQueue with the slot count taken without looking at activeUploadsRef
processQueueNoCap(U, snapQ, snapM) ==
    IF encryptionKeyRef = NoKey \/ ~vaultClientRef \/ vaultUid = NoKey THEN U
    ELSE
    LET pending == SelectSeq(snapQ, LAMBDA id : id \notin U.processing)
        canStart == MAX_CONCURRENT_UPLOADS
    IN IF canStart <= 0 \/ Len(pending) = 0 THEN U
       ELSE
       LET toStart == SubSeq(pending, 1, Min(canStart, Len(pending)))
           ids == Range(toStart)
       IN [U EXCEPT
            !.processing = @ \cup ids,
            !.q = [i \in 1..Len(@) |->
                     IF @[i].id \in ids THEN [@[i] EXCEPT !.status = "uploading"]
                     ELSE @[i]],
            !.active = @ + Len(toStart),
            !.runs = @ \cup {NewRun(id, U.starts[id] + 1, snapQ, snapM) : id \in ids},
            !.starts = [id \in DOMAIN @ |-> IF id \in ids THEN @[id] + 1 ELSE @[id]],
            !.ok = @ /\ \A id \in ids : U.starts[id] < MaxStarts]

\* processQueue of the closure whose render showed snapQ / snapM
processQueue(U, snapQ, snapM) ==
    IF encryptionKeyRef = NoKey \/ ~vaultClientRef \/ vaultUid = NoKey THEN U
    ELSE
    LET pending == SelectSeq(snapQ, LAMBDA id : id \notin U.processing)
        canStart == MAX_CONCURRENT_UPLOADS - U.active
    IN IF canStart <= 0 \/ Len(pending) = 0 THEN U
       ELSE
       LET toStart == SubSeq(pending, 1, Min(canStart, Len(pending)))
           ids == Range(toStart)
       IN [U EXCEPT
            !.processing = @ \cup ids,
            !.q = [i \in 1..Len(@) |->
                     IF @[i].id \in ids THEN [@[i] EXCEPT !.status = "uploading"]
                     ELSE @[i]],
            !.active = @ + Len(toStart),
            !.runs = @ \cup {NewRun(id, U.starts[id] + 1, snapQ, snapM) : id \in ids},
            !.starts = [id \in DOMAIN @ |-> IF id \in ids THEN @[id] + 1 ELSE @[id]],
            !.ok = @ /\ \A id \in ids : U.starts[id] < MaxStarts]

\* useEffect(() => processQueue(), [uploadQueue.length]) after the render that follows
Effect(U, oldLen, manifest) ==
    IF Len(U.q) # oldLen THEN processQueue(U, PendingIds(U.q), manifest) ELSE U

\* a run whose uploadFile has returned and whose workers have all stopped is gone
Collect(rs) == {r \in rs : ~(Zombie(r) /\ \A w \in Workers : Terminal(r.workers[w]))}

SetStatus(queue, id, status) ==
    [i \in 1..Len(queue) |->
        IF queue[i].id = id THEN [queue[i] EXCEPT !.status = status] ELSE queue[i]]

\* uploadFile: the end of the try block or the catch block, then finally
\* r is the run as its last step left it (a member of U.runs or its replacement)
EndRun(U, old, r, outcome) ==
    LET q1 == CASE outcome = "completed" -> SetStatus(U.q, r.item, "completed")
                [] outcome = "error" -> SetStatus(U.q, r.item, "error")
                [] OTHER -> SelectSeq(U.q, LAMBDA it : it.id # r.item)
        finished == [r EXCEPT !.phase = "ended", !.snapQ = << >>, !.snapM = << >>]
        U1 == [U EXCEPT !.q = q1,
                        !.active = @ - 1,
                        !.cancelled = @ \ {r.item},
                        !.processing = @ \ {r.item},
                        !.runs = (@ \ {old}) \cup {finished},
                        !.ended[r.item] = @ \cup {outcome}]
    IN processQueue(U1, r.snapQ, r.snapM)

Commit(U, manifest) ==
    LET V == Effect(U, Len(uploadQueue), manifest)
    IN /\ V.ok
       /\ uploadQueue' = V.q
       /\ activeUploadsRef' = V.active
       /\ cancelledRef' = V.cancelled
       /\ processingRef' = V.processing
       /\ runs' = Collect(V.runs)
       /\ starts' = V.starts
       /\ ended' = V.ended

\* addToQueue(files, parentId): the next k files of the user's selection
AddToQueue(k) ==
    /\ k >= 1
    /\ nextFile + k - 1 <= Len(files)
    /\ LET newItems == [i \in 1..k |->
               [id |-> nextFile + i - 1, status |-> "pending", chunksUploaded |-> 0,
                totalChunks |-> calculateChunkCount(files[nextFile + i - 1].size)]]
       IN Commit([Cur EXCEPT !.q = @ \o newItems], manifestRef)
    /\ nextFile' = nextFile + k
    /\ UNCHANGED <<extraVars, sessionVars, manifestVars, files, faultsLeft, uploadRecords, blobs, encryptionKeyRef,
                   vaultClientRef, vaultUid, manifestRef, storedManifest,
                   manifestUpdateLockRef, calls, foldersMade,
                   attempts, cancelHist, dl, delivered>>

\* environment: a store call fails transiently (fault) or answers
UseFault(fault) ==
    /\ fault => faultsLeft > 0
    /\ faultsLeft' = IF fault THEN faultsLeft - 1 ELSE faultsLeft

Bump(att, item, chunkSet) ==
    [att EXCEPT ![item] = [c \in DOMAIN @ |->
        IF c \in chunkSet THEN Min(@[c] + 1, MAX_RETRIES + 1) ELSE @[c]]]

StoppedWorker(pc) == [IdleWorker EXCEPT !.pc = pc]

\* the catch block of the retry loop (retries++, cancel check, give up or back off)
Catch(wk, cancelled) ==
    LET retries == wk.retries + 1
    IN IF cancelled THEN StoppedWorker("cancelled")
       ELSE IF retries >= MAX_RETRIES THEN StoppedWorker("thrown")
       ELSE [wk EXCEPT !.pc = "backoff", !.retries = retries,
                       !.delay = RETRY_DELAY_MS * retries]

\* the head of uploadNextChunk's outer loop: queue test, cancel check, shift
LoopTop(r, w, cancelled) ==
    IF Len(r.chunkQueue) = 0 THEN [r EXCEPT !.workers[w] = StoppedWorker("done")]
    ELSE IF cancelled THEN [r EXCEPT !.workers[w] = StoppedWorker("cancelled")]
    ELSE [r EXCEPT !.workers[w] = [pc |-> "put", chunk |-> Head(r.chunkQueue),
                                   retries |-> 0, delay |-> 0],
                   !.chunkQueue = Tail(@)]

\* uploadFile after Promise.all: unique name, file entry, addEntry on the closure's manifest
\* uploadFile adding its entry to the manifest of that moment
NewSchemaFresh(r) ==
    LET f == files[r.item]
        uniqueName == getUniqueName(manifestRef, f.name, f.parent)
        fileEntry == createFileEntry(<<"file", r.item, r.no>>, uniqueName, f.parent,
                         FileUid(r.item), f.size, calculateChunkCount(f.size))
    IN addEntry(manifestRef, fileEntry)

NewSchema(r) ==
    LET f == files[r.item]
        uniqueName == getUniqueName(r.snapM, f.name, f.parent)
        fileEntry == createFileEntry(<<"file", r.item, r.no>>, uniqueName, f.parent,
                         FileUid(r.item), f.size, calculateChunkCount(f.size))
    IN addEntry(r.snapM, fileEntry)

\* Settle going on to the manifest as soon as one worker is done
SettleOnFirst(U, old, new, w) ==
    LET pc == new.workers[w].pc
        swap(r) == [U EXCEPT !.runs = (@ \ {old}) \cup {r}]
    IN IF new.phase # "chunks" THEN [U |-> swap(new), enq |-> << >>]
       ELSE IF pc = "cancelled"
            THEN [U |-> swap([new EXCEPT !.phase = "canceldel"]), enq |-> << >>]
       ELSE IF pc = "thrown"
            THEN [U |-> EndRun(U, old, new, "error"), enq |-> << >>]
       ELSE IF \E v \in Workers : new.workers[v].pc = "done"
            THEN [U |-> swap([new EXCEPT !.phase = "update"]),
                  enq |-> <<[value |-> NewSchema(new), caller |-> RunId(new)]>>]
       ELSE [U |-> swap(new), enq |-> << >>]

\* what await Promise.all(uploadChunks) makes of a worker's step
\* result: the hook state and the updateSchema call uploadFile makes, if any
Settle(U, old, new, w) ==
    LET pc == new.workers[w].pc
        swap(r) == [U EXCEPT !.runs = (@ \ {old}) \cup {r}]
    IN IF new.phase # "chunks" THEN [U |-> swap(new), enq |-> << >>]
       ELSE IF pc = "cancelled"
            THEN [U |-> swap([new EXCEPT !.phase = "canceldel"]), enq |-> << >>]
       ELSE IF pc = "thrown"
            THEN [U |-> EndRun(U, old, new, "error"), enq |-> << >>]
       ELSE IF \A v \in Workers : new.workers[v].pc = "done"
            THEN [U |-> swap([new EXCEPT !.phase = "update"]),
                  enq |-> <<[value |-> NewSchema(new), caller |-> RunId(new)]>>]
       ELSE [U |-> swap(new), enq |-> << >>]

\* a promise is named after the call that made it; a resolved one is ResolvedPromise
ResolvedPromise == <<0, 0>>

\* updateManifest up to `await previousUpdate`; epoch: the logouts made before the call;
\* after: whether an earlier call had thrown by then
Enqueue(value, caller) ==
    /\ calls' = calls \cup {[own |-> caller, prev |-> manifestUpdateLockRef,
                             phase |-> "wait", value |-> value, caller |-> caller,
                             key |-> NoKey, epoch |-> hist.logout.n,
                             after |-> hist.failed]}
    /\ manifestUpdateLockRef' = caller

Finish(R) ==
    /\ Commit(R.U, manifestRef)
    /\ IF R.enq = << >>
       THEN UNCHANGED <<calls, manifestUpdateLockRef>>
       ELSE Enqueue(R.enq[1].value, R.enq[1].caller)

\* uploadFile: the upload record insert answers; the chunk workers start
InsertRecord(r, fault) ==
    /\ r \in runs /\ r.phase = "insert"
    /\ UseFault(fault)
    /\ IF fault
       THEN /\ Finish([U |-> EndRun(Cur, r, r, "error"), enq |-> << >>])
            /\ UNCHANGED <<uploadRecords, attempts>>
       ELSE LET total == calculateChunkCount(files[r.item].size)
                cancelled == r.item \in cancelledRef
                taken == IF cancelled THEN 0 ELSE Min(total, MAX_CONCURRENT_CHUNKS)
                ws == [w \in Workers |->
                         IF total = 0 THEN StoppedWorker("done")
                         ELSE IF cancelled THEN StoppedWorker("cancelled")
                         ELSE IF w <= total
                              THEN [pc |-> "put", chunk |-> w - 1, retries |-> 0, delay |-> 0]
                         ELSE StoppedWorker("done")]
                r1 == [r EXCEPT !.phase = "chunks", !.workers = ws,
                                !.chunkQueue = [i \in 1..(total - taken) |-> taken + i - 1]]
            IN /\ Finish(Settle(Cur, r, r1, 1))
               /\ uploadRecords' = uploadRecords \cup
                     {[file_uid |-> FileUid(r.item), total_chunks |-> total,
                       received |-> << >>]}
               /\ attempts' = Bump(attempts, r.item, {c \in 0..(taken - 1) : TRUE})
    /\ UNCHANGED <<extraVars, sessionVars, manifestVars, files, blobs, encryptionKeyRef, vaultClientRef, vaultUid,
                   manifestRef, storedManifest, foldersMade, nextFile, cancelHist,
                   dl, delivered>>

Swap(U, old, new) == [U EXCEPT !.runs = (@ \ {old}) \cup {new}]

StoreUnchangedByHook ==
    UNCHANGED <<extraVars, sessionVars, manifestVars, files, encryptionKeyRef, vaultClientRef, vaultUid, manifestRef,
                storedManifest, foldersMade, nextFile, cancelHist, dl, delivered>>

\* a chunk attempt up to the answer of storage.upload(path, encrypted, {upsert: false})
ChunkPut(r, w, fault) ==
    /\ r \in runs /\ r.workers[w].pc = "put"
    /\ LET wk == r.workers[w]
           path == getChunkPath(r.vault, FileUid(r.item), Num(wk.chunk), Undefined)
           exists == \E b \in blobs : b.path = path
       IN /\ fault => ~exists
          /\ UseFault(fault)
          /\ IF fault \/ exists
             THEN /\ Finish(Settle(Cur, r,
                        [r EXCEPT !.workers[w] = Catch(wk, r.item \in cancelledRef)], w))
                  /\ UNCHANGED blobs
             ELSE /\ blobs' = blobs \cup
                        {[path |-> path,
                          cipher |-> encrypt(readChunk(r.item, wk.chunk), HeldKey(r))]}
                  /\ Finish([U |-> Swap(Cur, r, [r EXCEPT !.workers[w].pc = "rpc"]),
                             enq |-> << >>])
    /\ UNCHANGED <<uploadRecords, attempts>>
    /\ StoreUnchangedByHook

\* append_received_chunk without the NOT ... = ANY(received_chunks) condition
append_received_chunkAlways(rows, fileUid, chunkIndex) ==
    {IF row.file_uid = fileUid
     THEN [row EXCEPT !.received = Append(@, chunkIndex)]
     ELSE row : row \in rows}

\* append_received_chunk(p_file_uid, p_chunk_index)
append_received_chunk(rows, fileUid, chunkIndex) ==
    {IF row.file_uid = fileUid /\ chunkIndex \notin Range(row.received)
     THEN [row EXCEPT !.received = Append(@, chunkIndex)]
     ELSE row : row \in rows}

\* updateProgress(item.id, completedChunks, totalChunks)
updateProgress(queue, id, completed) ==
    [i \in 1..Len(queue) |->
        IF queue[i].id = id THEN [queue[i] EXCEPT !.chunksUploaded = completed]
        ELSE queue[i]]

\* the rest of the attempt: the rpc answers, progress, next chunk
ChunkAppend(r, w, fault) ==
    /\ r \in runs /\ r.workers[w].pc = "rpc"
    /\ UseFault(fault)
    /\ LET wk == r.workers[w]
           cancelled == r.item \in cancelledRef
       IN IF fault
          THEN /\ Finish(Settle(Cur, r, [r EXCEPT !.workers[w] = Catch(wk, cancelled)], w))
               /\ UNCHANGED <<uploadRecords, attempts>>
          ELSE LET r1 == [r EXCEPT !.completedChunks = @ + 1]
                   r2 == LoopTop(r1, w, cancelled)
                   U1 == [Cur EXCEPT !.q = updateProgress(@, r.item, r1.completedChunks)]
               IN /\ uploadRecords' =
                        append_received_chunk(uploadRecords, FileUid(r.item), wk.chunk)
                  /\ attempts' = IF r2.workers[w].pc = "put"
                                 THEN Bump(attempts, r.item, {r2.workers[w].chunk})
                                 ELSE attempts
                  /\ Finish(Settle(U1, r, r2, w))
    /\ UNCHANGED blobs
    /\ StoreUnchangedByHook

\* setTimeout(r, RETRY_DELAY_MS * retries) fires: the retry loop tries again
BackoffDone(r, w) ==
    /\ r \in runs /\ r.workers[w].pc = "backoff"
    /\ Finish([U |-> Swap(Cur, r, [r EXCEPT !.workers[w].pc = "put"]), enq |-> << >>])
    /\ attempts' = Bump(attempts, r.item, {r.workers[w].chunk})
    /\ UNCHANGED <<faultsLeft, uploadRecords, blobs>>
    /\ StoreUnchangedByHook

\* client.from(uploads).delete().eq("file_uid", file_uid); an error is only logged
DeleteRecords(fileUid, fault) ==
    uploadRecords' = IF fault THEN uploadRecords
                     ELSE {row \in uploadRecords : row.file_uid # fileUid}

\* uploadFile, catch: "Upload cancelled": record delete, item dropped, finally
CancelDelDone(r, fault) ==
    /\ r \in runs /\ r.phase = "canceldel"
    /\ UseFault(fault)
    /\ DeleteRecords(FileUid(r.item), fault)
    /\ Finish([U |-> EndRun(Cur, r, r, "cancel"), enq |-> << >>])
    /\ UNCHANGED <<blobs, attempts>>
    /\ StoreUnchangedByHook

\* uploadFile, after updateSchema: record delete, status completed, finally
DelRecDone(r, fault) ==
    /\ r \in runs /\ r.phase = "delrec"
    /\ UseFault(fault)
    /\ DeleteRecords(FileUid(r.item), fault)
    /\ Finish([U |-> EndRun(Cur, r, r, "completed"), enq |-> << >>])
    /\ UNCHANGED <<blobs, attempts>>
    /\ StoreUnchangedByHook

\* ---------------------------------------------------------- VaultContext
\* updateManifest without its `finally { resolve() }`: the call is gone, its promise stays
ResolveNever(c) ==
    /\ calls' = calls \ {c}
    /\ UNCHANGED manifestUpdateLockRef

\* `finally { resolve() }`: the call is gone and its promise is resolved wherever it is held
Resolve(c) ==
    /\ calls' = {[d EXCEPT !.prev = IF @ = c.own THEN ResolvedPromise ELSE @] :
                    d \in calls \ {c}}
    /\ manifestUpdateLockRef' = IF manifestUpdateLockRef = c.own THEN ResolvedPromise
                                ELSE manifestUpdateLockRef
FolderCaller(k) == <<0, k>>
CallerRun(c) == {r \in runs : RunId(r) = c.caller /\ r.phase = "update"}

\* what the awaiting caller does when updateManifest throws / returns
CallerFails(c) ==
    IF CallerRun(c) = {} THEN Cur
    ELSE LET r == CHOOSE x \in CallerRun(c) : TRUE IN EndRun(Cur, r, r, "error")
CallerReturns(c) ==
    IF CallerRun(c) = {} THEN Cur
    ELSE LET r == CHOOSE x \in CallerRun(c) : TRUE
         IN Swap(Cur, r, [r EXCEPT !.phase = "delrec"])

\* updateManifest going on without `await previousUpdate`
ManifestBeginNoAwait(c) ==
    /\ c \in calls /\ c.phase = "wait"
    /\ IF encryptionKeyRef = NoKey \/ ~vaultClientRef \/ vaultUid = NoKey
       THEN /\ Resolve(c)
            /\ Commit(CallerFails(c), manifestRef)
            /\ hist' = [hist EXCEPT !.failed = TRUE, !.thrower = c.caller]
       ELSE /\ UNCHANGED manifestUpdateLockRef
            /\ calls' = (calls \ {c}) \cup
                  {[c EXCEPT !.phase = "write", !.key = encryptionKeyRef]}
            /\ Commit(Cur, manifestRef)
            /\ UNCHANGED hist
    /\ UNCHANGED <<extraVars, sessionKept, manifestVars, files, faultsLeft, uploadRecords, blobs, encryptionKeyRef,
                   vaultClientRef, vaultUid, manifestRef, storedManifest,
                   foldersMade, nextFile, attempts, cancelHist, dl, delivered>>

\* updateManifest: `await previousUpdate` returns; unlocked check; encrypt and write begin
ManifestBegin(c) ==
    /\ c \in calls /\ c.phase = "wait"
    /\ c.prev = ResolvedPromise
    /\ IF encryptionKeyRef = NoKey \/ ~vaultClientRef \/ vaultUid = NoKey
       THEN /\ Resolve(c)
            /\ Commit(CallerFails(c), manifestRef)
            /\ hist' = [hist EXCEPT !.failed = TRUE, !.thrower = c.caller]
       ELSE /\ UNCHANGED manifestUpdateLockRef
            /\ calls' = (calls \ {c}) \cup
                  {[c EXCEPT !.phase = "write", !.key = encryptionKeyRef]}
            /\ Commit(Cur, manifestRef)
            /\ UNCHANGED hist
    /\ UNCHANGED <<extraVars, sessionKept, manifestVars, files, faultsLeft, uploadRecords, blobs, encryptionKeyRef,
                   vaultClientRef, vaultUid, manifestRef, storedManifest,
                   foldersMade, nextFile, attempts, cancelHist, dl, delivered>>

\* updateManifest taking the new manifest into the ref and the state before the store answers
ManifestFinishEager(c, fault) ==
    /\ c \in calls /\ c.phase = "write"
    /\ UseFault(fault)
    /\ Resolve(c)
    /\ manifestRef' = c.value
    /\ IF fault
       THEN /\ Commit(CallerFails(c), c.value)
            /\ hist' = [hist EXCEPT !.failed = TRUE, !.thrower = c.caller]
            /\ UNCHANGED storedManifest
       ELSE /\ storedManifest' = encrypt(c.value, c.key)
            /\ Commit(CallerReturns(c), c.value)
            /\ hist' = [hist EXCEPT !.passed = @ \/ c.after]
    /\ UNCHANGED <<extraVars, sessionKept, manifestVars, files, uploadRecords, blobs, encryptionKeyRef, vaultClientRef,
                   vaultUid, foldersMade, nextFile, attempts, cancelHist, dl,
                   delivered>>

\* updateManifest: the store answers the row update; ref and state follow; finally resolve
ManifestFinish(c, fault) ==
    /\ c \in calls /\ c.phase = "write"
    /\ UseFault(fault)
    /\ Resolve(c)
    /\ IF fault
       THEN /\ Commit(CallerFails(c), manifestRef)
            /\ hist' = [hist EXCEPT !.failed = TRUE, !.thrower = c.caller]
            /\ UNCHANGED <<manifestRef, storedManifest>>
       ELSE /\ storedManifest' = encrypt(c.value, c.key)
            /\ manifestRef' = c.value
            /\ Commit(CallerReturns(c), c.value)
            /\ hist' = [hist EXCEPT !.passed = @ \/ c.after]
    /\ UNCHANGED <<extraVars, sessionKept, manifestVars, files, uploadRecords, blobs, encryptionKeyRef, vaultClientRef,
                   vaultUid, foldersMade, nextFile, attempts, cancelHist, dl,
                   delivered>>

\* Vault page: handleCreateFolder on the manifest of the current render
CreateFolder(name) ==
    /\ foldersMade < MaxFolders
    /\ LET uniqueName == getUniqueName(manifestRef, name, NullId)
           folder == createFolder(<<"folder", foldersMade + 1, 0>>, uniqueName, NullId)
       IN Enqueue(addEntry(manifestRef, folder), FolderCaller(foldersMade + 1))
    /\ foldersMade' = foldersMade + 1
    /\ UNCHANGED <<extraVars, sessionVars, manifestVars, files, faultsLeft, uploadQueue, activeUploadsRef, cancelledRef,
                   processingRef, runs, starts, uploadRecords, blobs,
                   encryptionKeyRef, vaultClientRef, vaultUid, manifestRef,
                   storedManifest, nextFile, attempts, cancelHist, ended, dl,
                   delivered>>

\* ------------------------------------------------ VaultContext, the session
NoError == "null"
GenericError == "Unable to access vault"
LoggedOut == [isUnlocked |-> FALSE, isLoading |-> FALSE, error |-> NoError]
Unlocked == [isUnlocked |-> TRUE, isLoading |-> FALSE, error |-> NoError]

\* deriveKeys(seedPhrase): Argon2id with the fixed salt, then the two subkeys; the same
\* phrase gives the same pair, another phrase another key and another vault uid
deriveKeys(seedPhrase) ==
    IF seedPhrase = "s1"
    THEN [encryptionKey |-> SessionKey, vaultUid |-> SessionVault]
    ELSE [encryptionKey |-> "K2", vaultUid |-> "V2"]

\* secureWipe that leaves the bytes as they are
secureWipeSkipped(heap, k) == heap

\* secureWipe(data): sodium.memzero on the array itself
secureWipe(heap, k) == [heap EXCEPT ![k].zeroed = TRUE]

\* the state of useReducer: the fields of VaultState the model keeps
VaultState ==
    [isUnlocked |-> state.isUnlocked, isLoading |-> state.isLoading,
     error |-> state.error, vaultUid |-> vaultUid, manifest |-> manifestRef]

\* a reducer whose LOGOUT leaves isUnlocked as it is
vaultReducerStaysUnlocked(s, action) ==
    CASE action.type = "UNLOCK_START" -> [s EXCEPT !.isLoading = TRUE, !.error = NoError]
      [] action.type = "UNLOCK_SUCCESS" ->
            [s EXCEPT !.isLoading = FALSE, !.isUnlocked = TRUE,
                      !.vaultUid = action.payload.vaultUid,
                      !.manifest = action.payload.manifest]
      [] action.type = "UNLOCK_ERROR" -> [s EXCEPT !.isLoading = FALSE, !.error = action.payload]
      [] action.type = "UPDATE_MANIFEST" -> [s EXCEPT !.manifest = action.payload]
      [] action.type = "CLEAR_ERROR" -> [s EXCEPT !.error = NoError]
      [] action.type = "LOGOUT" ->
            [s EXCEPT !.isLoading = FALSE, !.error = NoError,
                      !.vaultUid = NoKey, !.manifest = << >>]
      [] OTHER -> s

vaultReducer(s, action) ==
    CASE action.type = "UNLOCK_START" -> [s EXCEPT !.isLoading = TRUE, !.error = NoError]
      [] action.type = "UNLOCK_SUCCESS" ->
            [s EXCEPT !.isLoading = FALSE, !.isUnlocked = TRUE,
                      !.vaultUid = action.payload.vaultUid,
                      !.manifest = action.payload.manifest]
      [] action.type = "UNLOCK_ERROR" -> [s EXCEPT !.isLoading = FALSE, !.error = action.payload]
      [] action.type = "UPDATE_MANIFEST" -> [s EXCEPT !.manifest = action.payload]
      [] action.type = "CLEAR_ERROR" -> [s EXCEPT !.error = NoError]
      [] action.type = "LOGOUT" ->
            [isUnlocked |-> FALSE, isLoading |-> FALSE, error |-> NoError,
             vaultUid |-> NoKey, manifest |-> << >>]
      [] OTHER -> s

RECURSIVE Reduce(_, _)
Reduce(s, actions) ==
    IF actions = << >> THEN s ELSE Reduce(vaultReducer(s, Head(actions)), Tail(actions))

\* dispatch of the given actions and the render that follows: manifestRef.current = state.manifest
Dispatch(actions) ==
    LET s == Reduce(VaultState, actions)
    IN /\ state' = [isUnlocked |-> s.isUnlocked, isLoading |-> s.isLoading, error |-> s.error]
       /\ vaultUid' = s.vaultUid
       /\ manifestRef' = s.manifest

\* the payload of unlockVault's UNLOCK_ERROR carrying the message of what was thrown
unlockErrorOfCause(cause) == cause

\* the payload of the UNLOCK_ERROR that unlockVault's catch dispatches
unlockError(cause) == GenericError

\* the payload of the UNLOCK_ERROR that createVault's catch dispatches: err.message
createError(cause) == cause

\* no confirmDelete was called yet; afterwards del keeps what the last call computed and
\* whether its storage.remove was answered without error
NoDel == [phase |-> "none", newManifest |-> << >>, chunkPaths |-> {}, n |-> 0,
          removed |-> FALSE]

NoOp == [kind |-> "none", phase |-> "none", seed |-> "none", key |-> 0,
         uid |-> NoKey, manifest |-> << >>, fromLocked |-> FALSE]
NoUnlock == [result |-> "none", cause |-> "none", fromLocked |-> FALSE, key |-> 0]
NoLogout == [n |-> 0, trigger |-> "none", manifest |-> << >>, uid |-> NoKey,
             key |-> 0, seed |-> "none"]
\* history of the session calls: the last unlockVault that returned, the last logout,
\* the phrase of the session, createVault / unlockVault calls begun, whether a
\* session call was made while an updateManifest call was unfinished, whether an
\* updateManifest call has thrown (and whose was the last that did), and whether a call
\* made after that has returned
NoHist == [unlock |-> NoUnlock, logout |-> NoLogout, seed |-> "none", begun |-> 0,
           overlap |-> FALSE, failed |-> FALSE, passed |-> FALSE,
           thrower |-> ResolvedPromise]

\* the variables of the hooks and of the update chain, which the session calls leave alone
hookVars == <<files, uploadQueue, activeUploadsRef, cancelledRef, processingRef, runs,
              starts, uploadRecords, blobs, manifestUpdateLockRef, calls, foldersMade,
              nextFile, attempts, cancelHist, ended, dl, delivered, manifestVars>>

\* Login / Create page: the submit button is disabled while isLoading
CanSubmit == ~state.isLoading /\ op = NoOp /\ hist.begun < MaxSessions
\* ProtectedRoute renders the Vault page (and its idle and network hooks) only then
VaultPage == state.isUnlocked /\ ~state.isLoading

Begin(call) ==
    [hist EXCEPT !.unlock = NoUnlock, !.begun = @ + 1,
                 !.overlap = @ \/ calls # {}]
Returned(h, call, result, cause) ==
    IF call.kind = "unlock"
    THEN [h EXCEPT !.unlock = [result |-> result, cause |-> cause,
                               fromLocked |-> call.fromLocked,
                               key |-> IF cause = "derive" THEN 0 ELSE call.key]]
    ELSE h

\* unlockVault up to the first await on the store: UNLOCK_START, deriveKeys,
\* createVaultClient, select of the vault row; or deriveKeys throws
UnlockStart(seedPhrase, fault) ==
    /\ CanSubmit
    /\ UseFault(fault)
    /\ LET keys == deriveKeys(seedPhrase)
           call == [kind |-> "unlock", phase |-> "fetch", seed |-> seedPhrase,
                    key |-> Len(keyHeap) + 1, uid |-> keys.vaultUid,
                    manifest |-> << >>, fromLocked |-> ~state.isUnlocked]
       IN IF fault
          THEN /\ Dispatch(<<[type |-> "CLEAR_ERROR"], [type |-> "UNLOCK_START"],
                             [type |-> "UNLOCK_ERROR", payload |-> unlockError("derive")]>>)
               /\ hist' = Returned(Begin(call), call, "false", "derive")
               /\ UNCHANGED <<keyHeap, vaultClientCache, op>>
          ELSE /\ Dispatch(<<[type |-> "CLEAR_ERROR"], [type |-> "UNLOCK_START"]>>)
               /\ keyHeap' = Append(keyHeap, [value |-> keys.encryptionKey, zeroed |-> FALSE])
               /\ vaultClientCache' = vaultClientCache \cup {keys.vaultUid}
               /\ op' = call
               /\ hist' = Begin(call)
    /\ UNCHANGED <<extraVars, hookVars, encryptionKeyRef, vaultClientRef, storedManifest,
                   vaultRows, keyObj>>

\* unlockVault: the select answers (answer: the row if there is one, a rejection, or
\* a manifest_cipher that does not decrypt or parse); decrypt; select of the grants
UnlockFetch(answer) ==
    /\ op.kind = "unlock" /\ op.phase = "fetch"
    /\ UseFault(answer # "row")
    /\ LET key == keyHeap[op.key].value
           cipher == IF answer = "garbled" THEN encrypt(storedManifest.plain, NoKey)
                     ELSE storedManifest
           cause == IF answer = "rejected" THEN "rejected"
                    ELSE IF op.uid \notin vaultRows THEN "norow"
                    ELSE IF ~DecryptOk(cipher, key) THEN "decrypt"
                    ELSE "none"
       IN IF cause # "none"
          THEN /\ keyHeap' = secureWipe(keyHeap, op.key)
               /\ Dispatch(<<[type |-> "UNLOCK_ERROR", payload |-> unlockError(cause)]>>)
               /\ op' = NoOp
               /\ hist' = Returned(hist, op, "false", cause)
          ELSE /\ op' = [op EXCEPT !.phase = "limits", !.manifest = decrypt(cipher, key)]
               /\ UNCHANGED <<keyHeap, state, vaultUid, manifestRef, hist>>
    /\ UNCHANGED <<extraVars, hookVars, encryptionKeyRef, vaultClientRef, storedManifest,
                   vaultRows, keyObj, vaultClientCache>>

\* unlockVault keeping the manifest of the state instead of the decrypted one
UnlockFinishKeepManifest(fault) ==
    /\ op.kind = "unlock" /\ op.phase = "limits"
    /\ UseFault(fault)
    /\ encryptionKeyRef' = keyHeap[op.key].value
    /\ keyObj' = op.key
    /\ vaultClientRef' = TRUE
    /\ Dispatch(<<[type |-> "UNLOCK_SUCCESS",
                   payload |-> [vaultUid |-> op.uid, manifest |-> manifestRef]]>>)
    /\ op' = NoOp
    /\ hist' = [Returned(hist, op, "true", "none") EXCEPT !.seed = op.seed]
    /\ UNCHANGED <<extraVars, hookVars, storedManifest, vaultRows, keyHeap, vaultClientCache>>

\* unlockVault: the selects and the storage_limit update have answered (their errors
\* are only logged); key and client into the refs; UNLOCK_SUCCESS; return true
UnlockFinish(fault) ==
    /\ op.kind = "unlock" /\ op.phase = "limits"
    /\ UseFault(fault)
    /\ encryptionKeyRef' = keyHeap[op.key].value
    /\ keyObj' = op.key
    /\ vaultClientRef' = TRUE
    /\ Dispatch(<<[type |-> "UNLOCK_SUCCESS",
                   payload |-> [vaultUid |-> op.uid, manifest |-> op.manifest]]>>)
    /\ op' = NoOp
    /\ hist' = [Returned(hist, op, "true", "none") EXCEPT !.seed = op.seed]
    /\ UNCHANGED <<extraVars, hookVars, storedManifest, vaultRows, keyHeap, vaultClientCache>>

\* createVault up to its first await on the store: UNLOCK_START, deriveKeys, encrypt of
\* the empty manifest, insert of the vault row; or deriveKeys throws
CreateStart(seedPhrase, fault) ==
    /\ CanSubmit
    /\ UseFault(fault)
    /\ LET keys == deriveKeys(seedPhrase)
           call == [kind |-> "create", phase |-> "insert", seed |-> seedPhrase,
                    key |-> Len(keyHeap) + 1, uid |-> keys.vaultUid,
                    manifest |-> << >>, fromLocked |-> ~state.isUnlocked]
       IN IF fault
          THEN /\ Dispatch(<<[type |-> "CLEAR_ERROR"], [type |-> "UNLOCK_START"],
                             [type |-> "UNLOCK_ERROR", payload |-> createError("derive")]>>)
               /\ hist' = Begin(call)
               /\ UNCHANGED <<keyHeap, op>>
          ELSE /\ Dispatch(<<[type |-> "CLEAR_ERROR"], [type |-> "UNLOCK_START"]>>)
               /\ keyHeap' = Append(keyHeap, [value |-> keys.encryptionKey, zeroed |-> FALSE])
               /\ op' = call
               /\ hist' = Begin(call)
    /\ UNCHANGED <<extraVars, hookVars, encryptionKeyRef, vaultClientRef, storedManifest,
                   vaultRows, keyObj, vaultClientCache>>

\* createVault: the insert answers: the row is there, or 23505 for a uid that has a
\* row, or another error; then the insert of the free storage grant
CreateInsert(fault) ==
    /\ op.kind = "create" /\ op.phase = "insert"
    /\ UseFault(fault)
    /\ IF fault \/ op.uid \in vaultRows
       THEN /\ Dispatch(<<[type |-> "UNLOCK_ERROR",
                           payload |-> createError(IF fault THEN "store" ELSE "exists")]>>)
            /\ op' = NoOp
            /\ UNCHANGED <<vaultRows, storedManifest>>
       ELSE /\ vaultRows' = vaultRows \cup {op.uid}
            /\ storedManifest' = encrypt(op.manifest, keyHeap[op.key].value)
            /\ op' = [op EXCEPT !.phase = "grant"]
            /\ UNCHANGED <<state, vaultUid, manifestRef>>
    /\ UNCHANGED <<extraVars, hookVars, encryptionKeyRef, vaultClientRef, keyHeap, keyObj,
                   vaultClientCache, hist>>

\* createVault: the grant insert has answered (an error is only logged); key and
\* client into the refs; UNLOCK_SUCCESS with the empty manifest; return true
CreateFinish(fault) ==
    /\ op.kind = "create" /\ op.phase = "grant"
    /\ UseFault(fault)
    /\ encryptionKeyRef' = keyHeap[op.key].value
    /\ keyObj' = op.key
    /\ vaultClientRef' = TRUE
    /\ vaultClientCache' = vaultClientCache \cup {op.uid}
    /\ Dispatch(<<[type |-> "UNLOCK_SUCCESS",
                   payload |-> [vaultUid |-> op.uid, manifest |-> op.manifest]]>>)
    /\ op' = NoOp
    /\ hist' = [hist EXCEPT !.seed = op.seed]
    /\ UNCHANGED <<extraVars, hookVars, storedManifest, vaultRows, keyHeap>>

\* logout(): clearVaultClient, secureWipe of the key, the refs to null, LOGOUT
LogoutBody(trigger) ==
    /\ VaultPage
    /\ hist.logout.n < MaxLogouts
    /\ vaultClientCache' = IF vaultUid # NoKey THEN vaultClientCache \ {vaultUid}
                           ELSE vaultClientCache
    /\ IF encryptionKeyRef # NoKey
       THEN /\ keyHeap' = secureWipe(keyHeap, keyObj)
            /\ encryptionKeyRef' = NoKey
            /\ keyObj' = 0
       ELSE UNCHANGED <<keyHeap, encryptionKeyRef, keyObj>>
    /\ vaultClientRef' = FALSE
    /\ Dispatch(<<[type |-> "LOGOUT"]>>)
    /\ hist' = [hist EXCEPT !.logout = [n |-> @.n + 1, trigger |-> trigger,
                                        manifest |-> manifestRef, uid |-> vaultUid,
                                        key |-> keyObj, seed |-> hist.seed],
                            !.seed = "none",
                            !.overlap = @ \/ calls # {}]
    /\ UNCHANGED <<cx, del, hookVars, faultsLeft, storedManifest, vaultRows, op>>

\* logout() called where the timer is not looked at: handleLogout, or a hook of the
\* Vault page; the page is left
Logout(trigger) ==
    /\ LogoutBody(trigger)
    /\ timer' = [timer EXCEPT !.route = IF trigger = "button" THEN "/" ELSE "/login"]

\* ------------------------------------- the routes, useIdleTimeout, useNetworkStatus
\* before the Vault page was ever shown
NoTimer == [route |-> "/login", now |-> 0, lastActivityRef |-> 0, nextTick |-> 0,
            showWarning |-> FALSE, passes |-> 0, offlines |-> 0]
\* the Vault page mounts: useRef(Date.now()), useState(false), setInterval
VaultShown(tm) ==
    [tm EXCEPT !.route = "/vault", !.lastActivityRef = tm.now,
               !.nextTick = tm.now + IDLE_CHECK_MS, !.showWarning = FALSE]
\* the Vault page is rendered: its hooks are mounted, its listeners and interval exist
OnVault == VaultPage /\ timer.route = "/vault"

\* what the interval callback does with an idle time
Band(idleTime) ==
    IF idleTime >= IDLE_TIMEOUT_MS THEN "logout"
    ELSE IF idleTime >= IDLE_WARNING_MS THEN "warning" ELSE "none"

TimerOnly == UNCHANGED <<appVars, sessionVars, manifestVars, cx, del>>

\* the clock advances by d; interval ticks before the new time are passed over when
\* they change nothing (same branch of the callback as the last one); a tick that is
\* due fires before the clock advances further
Pass(d) ==
    /\ timer.passes < MaxPasses
    /\ ~(OnVault /\ timer.now = timer.nextTick)
    /\ LET newNow == timer.now + d
           skipped == IF OnVault /\ timer.nextTick < newNow
                      THEN (newNow - 1 - timer.nextTick) \div IDLE_CHECK_MS + 1 ELSE 0
           lastSkipped == timer.nextTick + (skipped - 1) * IDLE_CHECK_MS
       IN /\ skipped > 0 =>
                Band(lastSkipped - timer.lastActivityRef) =
                    (IF timer.showWarning THEN "warning" ELSE "none")
          /\ timer' = [timer EXCEPT !.now = newNow, !.passes = @ + 1,
                                    !.nextTick = @ + skipped * IDLE_CHECK_MS]
    /\ TimerOnly

\* the interval callback of useIdleTimeout
IdleTick ==
    /\ OnVault
    /\ timer.now = timer.nextTick
    /\ LET idleTime == timer.now - timer.lastActivityRef
       IN IF Band(idleTime) = "logout"
          THEN /\ LogoutBody("idle")
               /\ timer' = [timer EXCEPT !.showWarning = FALSE, !.route = "/login"]
          ELSE /\ timer' = [timer EXCEPT !.showWarning = (Band(idleTime) = "warning"),
                                         !.nextTick = timer.now + IDLE_CHECK_MS]
               /\ TimerOnly

\* handleActivity: one of the six document events
Activity ==
    /\ OnVault
    /\ timer' = IF timer.showWarning THEN timer
                ELSE [timer EXCEPT !.lastActivityRef = timer.now]
    /\ TimerOnly

\* stayLoggedIn, the button of the warning dialog: resetTimer; the effect runs again
StayLoggedIn ==
    /\ OnVault
    /\ timer.showWarning
    /\ timer' = [timer EXCEPT !.lastActivityRef = timer.now, !.showWarning = FALSE,
                              !.nextTick = timer.now + IDLE_CHECK_MS]
    /\ TimerOnly

\* the window's offline event; handleOffline is a listener while the Vault page is mounted
Offline ==
    /\ timer.offlines < MaxOfflines
    /\ IF OnVault
       THEN /\ LogoutBody("offline")
            /\ timer' = [timer EXCEPT !.offlines = @ + 1, !.showWarning = FALSE,
                                      !.route = "/login"]
       ELSE /\ timer' = [timer EXCEPT !.offlines = @ + 1]
            /\ TimerOnly

\* the browser's back button on the Vault page: the router shows the page before it
GoBack ==
    /\ timer.route = "/vault"
    /\ timer' = [timer EXCEPT !.route = "/login", !.showWarning = FALSE]
    /\ TimerOnly

\* the browser's forward button: the router shows /vault again; ProtectedRoute lets
\* an unlocked session through and the Vault page mounts
GoForward ==
    /\ timer.route # "/vault"
    /\ VaultPage
    /\ timer' = VaultShown(timer)
    /\ TimerOnly

\* ------------------------------------------------- useUpload.ts, user calls
StoredChunks(item) == {b \in blobs : b.path[2] = FileUid(item)}

\* cancelUpload(id), offered by the queue row of a pending or uploading item
CancelUpload(id) ==
    /\ \E i \in 1..Len(uploadQueue) :
          /\ uploadQueue[i].id = id
          /\ uploadQueue[i].status \in {"pending", "uploading"}
          /\ cancelHist' =
                IF /\ uploadQueue[i].status = "uploading"
                   /\ \E r \in runs : r.item = id /\ r.phase = "chunks"
                   /\ Cardinality(StoredChunks(id)) < uploadQueue[i].totalChunks
                THEN cancelHist \cup {id} ELSE cancelHist
    /\ Commit([Cur EXCEPT !.cancelled = @ \cup {id},
                          !.q = [i \in 1..Len(@) |->
                                   IF @[i].id = id /\ @[i].status \in {"pending", "uploading"}
                                   THEN [@[i] EXCEPT !.status = "error"] ELSE @[i]]],
              manifestRef)
    /\ UNCHANGED <<extraVars, sessionVars, manifestVars, files, faultsLeft, uploadRecords, blobs, encryptionKeyRef,
                   vaultClientRef, vaultUid, manifestRef, storedManifest,
                   manifestUpdateLockRef, calls, foldersMade,
                   nextFile, attempts, dl, delivered>>

\* clearCompleted()
ClearCompleted ==
    /\ \E i \in 1..Len(uploadQueue) : uploadQueue[i].status \in {"completed", "error"}
    /\ Commit([Cur EXCEPT !.q = SelectSeq(@, LAMBDA it :
                                 it.status # "completed" /\ it.status # "error")],
              manifestRef)
    /\ UNCHANGED <<extraVars, sessionVars, manifestVars, files, faultsLeft, uploadRecords, blobs, encryptionKeyRef,
                   vaultClientRef, vaultUid, manifestRef, storedManifest,
                   manifestUpdateLockRef, calls, foldersMade,
                   nextFile, attempts, cancelHist, dl, delivered>>

NoDl == [status |-> "none", entry |-> createFolder(NullId, <<"", 0>>, NullId), i |-> 0,
         chunks |-> << >>, key |-> NoKey, cipher |-> encrypt(<< >>, NoKey)]
NoData == [length |-> -1, parts |-> << >>]

InitCommon ==
    /\ uploadQueue = << >>
    /\ activeUploadsRef = 0
    /\ cancelledRef = {}
    /\ processingRef = {}
    /\ runs = {}
    /\ starts = [id \in DOMAIN files |-> 0]
    /\ uploadRecords = {}
    /\ blobs = {}
    /\ encryptionKeyRef = SessionKey
    /\ vaultClientRef = TRUE
    /\ vaultUid = SessionVault
    /\ manifestRef = << >>
    /\ storedManifest = encrypt(<< >>, SessionKey)
    /\ manifestUpdateLockRef = ResolvedPromise
    /\ calls = {}
    /\ foldersMade = 0
    /\ nextFile = 1
    /\ attempts = [id \in DOMAIN files |->
                     [c \in 0..(calculateChunkCount(files[id].size) - 1) |-> 0]]
    /\ cancelHist = {}
    /\ ended = [id \in DOMAIN files |-> {}]
    /\ dl = NoDl
    /\ delivered = NoData
    /\ forest = << >>
    /\ nextId = 0
    /\ out = NoOut
    /\ state = Unlocked
    /\ vaultClientCache = {SessionVault}
    /\ vaultRows = {SessionVault}
    /\ keyHeap = <<[value |-> SessionKey, zeroed |-> FALSE]>>
    /\ keyObj = 1
    /\ op = NoOp
    /\ hist = [NoHist EXCEPT !.seed = "s1"]
    /\ timer = VaultShown(NoTimer)
    /\ cx = NoCx
    /\ del = NoDel

FileSets(n, sizes, names) == [1..n -> [size : sizes, name : names, parent : {NullId}]]

Bool == {TRUE, FALSE}

\* ---------------------------------------------------------- useDownload.ts
FileEntries(manifest) == {manifest[i] : i \in {j \in 1..Len(manifest) : manifest[j].type = "file"}}

\* downloadFile(file) up to the first fetch; one call at a time
DownloadFile(e) ==
    /\ dl.status \in {"none", "completed", "error", "invalid"}
    /\ e \in FileEntries(manifestRef)
    /\ IF e.type # "file" \/ e.file_uid = 0 \/ e.chunk_count = 0
       THEN dl' = [status |-> "invalid", entry |-> e, i |-> 0, chunks |-> << >>,
                   key |-> NoKey, cipher |-> encrypt(<< >>, NoKey)]
       ELSE IF encryptionKeyRef = NoKey \/ ~vaultClientRef \/ vaultUid = NoKey
       THEN dl' = [status |-> "locked", entry |-> e, i |-> 0, chunks |-> << >>,
                   key |-> NoKey, cipher |-> encrypt(<< >>, NoKey)]
       ELSE dl' = [status |-> "downloading", entry |-> e, i |-> 0, chunks |-> << >>,
                   key |-> encryptionKeyRef, cipher |-> encrypt(<< >>, NoKey)]
    /\ delivered' = NoData
    /\ UNCHANGED <<extraVars, sessionVars, manifestVars, files, faultsLeft, uploadQueue, activeUploadsRef, cancelledRef,
                   processingRef, runs, starts, uploadRecords, blobs,
                   encryptionKeyRef, vaultClientRef, vaultUid, manifestRef,
                   storedManifest, manifestUpdateLockRef, calls, foldersMade,
                   nextFile, attempts, cancelHist, ended>>

\* what storage.download can answer: the object, an error, or bytes that were altered
DownloadAnswers == {"data", "rejected", "garbled"}

\* downloadFile asking for the same chunk again after a failed fetch
DownloadFetchAgain(answer) ==
    /\ dl.status = "downloading"
    /\ UseFault(answer # "data")
    /\ LET path == getChunkPath(vaultUid, dl.entry.file_uid, Num(dl.i), Undefined)
           found == {b \in blobs : b.path = path}
       IN IF answer = "rejected" \/ found = {}
          THEN dl' = dl
          ELSE dl' = [dl EXCEPT !.status = "decrypting",
                                !.cipher = IF answer = "garbled"
                                           THEN encrypt((CHOOSE b \in found : TRUE).cipher.plain, NoKey)
                                           ELSE (CHOOSE b \in found : TRUE).cipher]
    /\ UNCHANGED <<extraVars, sessionVars, manifestVars, files, uploadQueue, activeUploadsRef, cancelledRef, processingRef,
                   runs, starts, uploadRecords, blobs, encryptionKeyRef,
                   vaultClientRef, vaultUid, manifestRef, storedManifest,
                   manifestUpdateLockRef, calls, foldersMade, nextFile, attempts,
                   cancelHist, ended, delivered>>

\* storage.download(path) of chunk i answers
DownloadFetch(answer) ==
    /\ dl.status = "downloading"
    /\ UseFault(answer # "data")
    /\ LET path == getChunkPath(vaultUid, dl.entry.file_uid, Num(dl.i), Undefined)
           found == {b \in blobs : b.path = path}
       IN IF answer = "rejected" \/ found = {}
          THEN dl' = [dl EXCEPT !.status = "error"]
          ELSE dl' = [dl EXCEPT !.status = "decrypting",
                                !.cipher = IF answer = "garbled"
                                           THEN encrypt((CHOOSE b \in found : TRUE).cipher.plain, NoKey)
                                           ELSE (CHOOSE b \in found : TRUE).cipher]
    /\ UNCHANGED <<extraVars, sessionVars, manifestVars, files, uploadQueue, activeUploadsRef, cancelledRef, processingRef,
                   runs, starts, uploadRecords, blobs, encryptionKeyRef,
                   vaultClientRef, vaultUid, manifestRef, storedManifest,
                   manifestUpdateLockRef, calls, foldersMade, nextFile, attempts,
                   cancelHist, ended, delivered>>

\* the download loop putting each decrypted chunk in front of the ones it has
DownloadDecryptPrepend ==
    /\ dl.status = "decrypting"
    /\ IF ~DecryptOk(dl.cipher, dl.key)
       THEN /\ dl' = [dl EXCEPT !.status = "error", !.cipher = encrypt(<< >>, NoKey)]
            /\ UNCHANGED delivered
       ELSE LET chunks == <<decrypt(dl.cipher, dl.key)>> \o dl.chunks
                done == dl.i + 1 >= dl.entry.chunk_count
            IN /\ dl' = [dl EXCEPT !.status = IF done THEN "completed" ELSE "downloading",
                                   !.i = @ + 1, !.chunks = chunks,
                                   !.cipher = encrypt(<< >>, NoKey)]
               /\ delivered' = IF done THEN concatenateChunks(chunks) ELSE delivered
    /\ UNCHANGED <<extraVars, sessionVars, manifestVars, files, faultsLeft, uploadQueue, activeUploadsRef, cancelledRef,
                   processingRef, runs, starts, uploadRecords, blobs,
                   encryptionKeyRef, vaultClientRef, vaultUid, manifestRef,
                   storedManifest, manifestUpdateLockRef, calls, foldersMade,
                   nextFile, attempts, cancelHist, ended>>

\* decryptChunk, chunks.push; after the last chunk concatenateChunks and downloadBlob
DownloadDecrypt ==
    /\ dl.status = "decrypting"
    /\ IF ~DecryptOk(dl.cipher, dl.key)
       THEN /\ dl' = [dl EXCEPT !.status = "error", !.cipher = encrypt(<< >>, NoKey)]
            /\ UNCHANGED delivered
       ELSE LET chunks == Append(dl.chunks, decrypt(dl.cipher, dl.key))
                done == dl.i + 1 >= dl.entry.chunk_count
            IN /\ dl' = [dl EXCEPT !.status = IF done THEN "completed" ELSE "downloading",
                                   !.i = @ + 1, !.chunks = chunks,
                                   !.cipher = encrypt(<< >>, NoKey)]
               /\ delivered' = IF done THEN concatenateChunks(chunks) ELSE delivered
    /\ UNCHANGED <<extraVars, sessionVars, manifestVars, files, faultsLeft, uploadQueue, activeUploadsRef, cancelledRef,
                   processingRef, runs, starts, uploadRecords, blobs,
                   encryptionKeyRef, vaultClientRef, vaultUid, manifestRef,
                   storedManifest, manifestUpdateLockRef, calls, foldersMade,
                   nextFile, attempts, cancelHist, ended>>

\* ------------------------------------------ manifest.ts, called one by one
EntryNames == {<<"a", 0>>, <<"b", 0>>}
EntryIds(manifest) == {manifest[i].id : i \in 1..Len(manifest)}
FolderIds(manifest) ==
    {manifest[i].id : i \in {j \in 1..Len(manifest) : manifest[j].type = "folder"}}
\* generateFileUid(): an id no entry has had
NewId(k) == <<"entry", nextId + k, 0>>
AbsentId == <<"entry", 0, 0>>

\* addEntry(manifest, createFolder(name, parent)), parent the folder shown or the root
NewFolder(name, parent) ==
    /\ nextId < MaxEntries
    /\ forest' = addEntry(forest, createFolder(NewId(1), name, parent))
    /\ nextId' = nextId + 1
    /\ out' = NoOut
    /\ UNCHANGED <<extraVars, appVars, sessionVars>>

\* addEntry(manifest, createFileEntry(name, parent, fileUid, size, chunkCount, mimeType))
NewFile(name, parent) ==
    /\ nextId < MaxEntries
    /\ forest' = addEntry(forest, createFileEntry(NewId(1), name, parent, nextId + 1, 1, 1))
    /\ nextId' = nextId + 1
    /\ out' = NoOut
    /\ UNCHANGED <<extraVars, appVars, sessionVars>>

\* addEntries(manifest, foldersToCreate): a dropped folder and its subfolder
NewFolders(name, parent) ==
    /\ nextId + 2 <= MaxEntries
    /\ forest' = addEntries(forest, <<createFolder(NewId(1), name, parent),
                                      createFolder(NewId(2), name, NewId(1))>>)
    /\ nextId' = nextId + 2
    /\ out' = NoOut
    /\ UNCHANGED <<extraVars, appVars, sessionVars>>

RemoveEntry(entryId) ==
    /\ LET result == removeEntry(forest, entryId)
       IN /\ forest' = IF result.threw THEN forest ELSE result.manifest
          /\ out' = [op |-> "removeEntry", arg |-> entryId, before |-> forest,
                     manifest |-> result.manifest, entries |-> result.removedFiles,
                     threw |-> result.threw]
    /\ UNCHANGED <<extraVars, appVars, sessionVars, nextId>>

RemoveEntries(entryIds) ==
    /\ LET result == removeEntries(forest, entryIds)
       IN /\ forest' = IF result.threw THEN forest ELSE result.manifest
          /\ out' = [op |-> "removeEntries", arg |-> entryIds, before |-> forest,
                     manifest |-> result.manifest, entries |-> result.removedFiles,
                     threw |-> result.threw]
    /\ UNCHANGED <<extraVars, appVars, sessionVars, nextId>>

RenameEntry(entryId, newName) ==
    /\ forest' = renameEntry(forest, entryId, newName)
    /\ out' = NoOut
    /\ UNCHANGED <<extraVars, appVars, sessionVars, nextId>>

MoveEntry(entryId, newParentId) ==
    /\ forest' = moveEntry(forest, entryId, newParentId)
    /\ out' = NoOut
    /\ UNCHANGED <<extraVars, appVars, sessionVars, nextId>>

GetEntriesInFolder(folderId) ==
    /\ out' = [op |-> "getEntriesInFolder", arg |-> folderId, before |-> forest,
               manifest |-> forest, entries |-> getEntriesInFolder(forest, folderId),
               threw |-> FALSE]
    /\ UNCHANGED <<extraVars, appVars, sessionVars, forest, nextId>>

\* ------------------------------------------------ Vault page: confirmDelete
DeleteCaller(k) == <<-1, k>>
\* all that confirmDelete leaves alone
DeleteKeeps ==
    UNCHANGED <<timer, cx, sessionVars, manifestVars, files, uploadQueue, activeUploadsRef,
                cancelledRef, processingRef, runs, starts, uploadRecords, encryptionKeyRef,
                vaultClientRef, vaultUid, manifestRef, storedManifest, foldersMade,
                nextFile, attempts, cancelHist, ended, dl, delivered>>

\* the path uploadFile's worker and downloadFile compute for a chunk
TransferPath(fileUid, i) == getChunkPath(vaultUid, fileUid, Num(i), Undefined)

\* confirmDelete computing the path as the transfers do
DeletePathByIndex(fileUid, pepper, i) == getChunkPath(vaultUid, fileUid, Num(i), Undefined)

\* the path confirmDelete computes for a chunk of a removed file
DeletePath(fileUid, pepper, i) == getChunkPath(vaultUid, fileUid, Str(pepper), Num(i))

\* the paths confirmDelete collects for the removed files
ChunkPaths(removedFiles, pepper) ==
    UNION {{DeletePath(removedFiles[k].file_uid, pepper, i) :
               i \in 0..(removedFiles[k].chunk_count - 1)} : k \in 1..Len(removedFiles)}

\* confirmDelete on the manifest of the current render, up to its first await on the
\* store: removeEntries, the chunk paths, storage.remove if there are any, else
\* updateManifest at once
ConfirmDelete(entryId, pepper) ==
    /\ del.phase = "none" /\ del.n < MaxDeletes
    /\ vaultUid # NoKey /\ vaultClientRef
    /\ entryId \in EntryIds(manifestRef)
    /\ LET removed == removeEntries(manifestRef, <<entryId>>)
           chunkPaths == ChunkPaths(removed.removedFiles, pepper)
       IN IF removed.threw
          THEN /\ del' = [NoDel EXCEPT !.n = del.n + 1]
               /\ UNCHANGED <<calls, manifestUpdateLockRef>>
          ELSE IF chunkPaths # {}
          THEN /\ del' = [phase |-> "remove", newManifest |-> removed.manifest,
                          chunkPaths |-> chunkPaths, n |-> del.n + 1, removed |-> FALSE]
               /\ UNCHANGED <<calls, manifestUpdateLockRef>>
          ELSE /\ del' = [NoDel EXCEPT !.n = del.n + 1, !.newManifest = removed.manifest]
               /\ Enqueue(removed.manifest, DeleteCaller(del.n + 1))
    /\ UNCHANGED <<faultsLeft, blobs>>
    /\ DeleteKeeps

\* confirmDelete: storage.remove answers (an error is only logged); updateManifest
DeleteRemoved(fault) ==
    /\ del.phase = "remove"
    /\ UseFault(fault)
    /\ blobs' = IF fault THEN blobs ELSE {b \in blobs : b.path \notin del.chunkPaths}
    /\ Enqueue(del.newManifest, DeleteCaller(del.n))
    /\ del' = [del EXCEPT !.phase = "none", !.removed = ~fault]
    /\ DeleteKeeps

\* ------------------------------------------------------------ specifications
\* Spec: two uploads and a folder creation meet at the manifest; the files are empty,
\* so no chunk step is ever enabled
Init ==
    /\ files \in FileSets(MaxItems, SizesSpec, FileNames)
    /\ faultsLeft = MaxFaults
    /\ InitCommon

Next ==
    \/ \E k \in 1..Len(files) : AddToQueue(k)
    \/ \E r \in runs, fault \in Bool : InsertRecord(r, fault)
    \/ \E r \in runs, fault \in Bool : DelRecDone(r, fault)
    \/ \E c \in calls : ManifestBegin(c)
    \/ \E c \in calls, fault \in Bool : ManifestFinish(c, fault)
    \/ \E name \in FileNames : CreateFolder(name)
    \/ \E id \in DOMAIN files : CancelUpload(id)
    \/ ClearCompleted

Spec == Init /\ [][Next]_vars

\* SpecFile: one file of three chunks, the chunk workers in detail
InitFile ==
    /\ files \in FileSets(1, SizesFile, FileNames)
    /\ faultsLeft = MaxFaults
    /\ InitCommon

NextFile ==
    \/ \E k \in 1..Len(files) : AddToQueue(k)
    \/ \E r \in runs, fault \in Bool : InsertRecord(r, fault)
    \/ \E r \in runs, w \in Workers, fault \in Bool : ChunkPut(r, w, fault)
    \/ \E r \in runs, w \in Workers, fault \in Bool : ChunkAppend(r, w, fault)
    \/ \E r \in runs, w \in Workers : BackoffDone(r, w)
    \/ \E r \in runs, fault \in Bool : CancelDelDone(r, fault)
    \/ \E r \in runs, fault \in Bool : DelRecDone(r, fault)
    \/ \E c \in calls : ManifestBegin(c)
    \/ \E c \in calls, fault \in Bool : ManifestFinish(c, fault)
    \/ \E id \in DOMAIN files : CancelUpload(id)
    \/ ClearCompleted

SpecFile == InitFile /\ [][NextFile]_vars

\* SpecQueue: one batch of more files than upload slots; the files are empty
InitQueue ==
    /\ files \in FileSets(MaxQueueItems, SizesQueue, FileNames)
    /\ faultsLeft = MaxFaults
    /\ InitCommon

NextQueue ==
    \/ AddToQueue(Len(files))
    \/ \E r \in runs, fault \in Bool : InsertRecord(r, fault)
    \/ \E r \in runs, fault \in Bool : DelRecDone(r, fault)
    \/ \E c \in calls : ManifestBegin(c)
    \/ \E c \in calls, fault \in Bool : ManifestFinish(c, fault)
    \/ \E id \in DOMAIN files : CancelUpload(id)
    \/ ClearCompleted

SpecQueue == InitQueue /\ [][NextQueue]_vars

\* SpecDownload: one file of any offered size is uploaded and downloaded
InitDownload ==
    /\ files \in FileSets(1, SizesDownload, FileNames)
    /\ faultsLeft = MaxFaults
    /\ InitCommon

NextDownload ==
    \/ \E k \in 1..Len(files) : AddToQueue(k)
    \/ \E r \in runs, fault \in Bool : InsertRecord(r, fault)
    \/ \E r \in runs, w \in Workers, fault \in Bool : ChunkPut(r, w, fault)
    \/ \E r \in runs, w \in Workers, fault \in Bool : ChunkAppend(r, w, fault)
    \/ \E r \in runs, w \in Workers : BackoffDone(r, w)
    \/ \E r \in runs, fault \in Bool : DelRecDone(r, fault)
    \/ \E c \in calls : ManifestBegin(c)
    \/ \E c \in calls, fault \in Bool : ManifestFinish(c, fault)
    \/ \E e \in FileEntries(manifestRef) : DownloadFile(e)
    \/ \E answer \in DownloadAnswers : DownloadFetch(answer)
    \/ DownloadDecrypt

SpecDownload == InitDownload /\ [][NextDownload]_vars

\* SpecNames: two uploads and a folder creation whose names are equal ignoring case
InitNames ==
    /\ files \in FileSets(MaxItems, SizesSpec, CasedNames)
    /\ faultsLeft = MaxFaults
    /\ InitCommon

NextNames ==
    \/ \E k \in 1..Len(files) : AddToQueue(k)
    \/ \E r \in runs, fault \in Bool : InsertRecord(r, fault)
    \/ \E r \in runs, fault \in Bool : DelRecDone(r, fault)
    \/ \E c \in calls : ManifestBegin(c)
    \/ \E c \in calls, fault \in Bool : ManifestFinish(c, fault)
    \/ \E name \in CasedNames : CreateFolder(name)

SpecNames == InitNames /\ [][NextNames]_vars

\* ------------------------------------------------------------ encrypt and decrypt called
ByteValues == {0, 1}
Plaintexts == UNION {[1..n -> ByteValues] : n \in 0..MaxPlain}
CryptoKeys == {"K", "K2"}
NonceDraws == {1, 2}

CryptoOnly == UNCHANGED <<appVars, sessionVars, manifestVars, timer, del>>

\* encrypt(plaintext, key) returns
CallEncrypt(plaintext, key, r) ==
    /\ cx.phase = "idle"
    /\ cx' = [cx EXCEPT !.phase = "encrypted", !.plaintext = plaintext, !.key = key,
                        !.blob = encryptBlob(plaintext, key, r)]
    /\ CryptoOnly

\* the part of a blob a position lies in
Region(blob, p) ==
    IF p <= NPUBBYTES THEN "nonce"
    ELSE IF p > Len(blob) - ABYTES THEN "tag" ELSE "body"

\* the store or the network flips a bit of the blob, once
FlipBit(p) ==
    /\ cx.phase = "encrypted" /\ cx.altered = "no"
    /\ p \in 1..Len(cx.blob)
    /\ cx' = [cx EXCEPT !.blob[p] = Flip(@), !.altered = Region(cx.blob, p)]
    /\ CryptoOnly

\* the store or the network returns the first n bytes only
Truncate(n) ==
    /\ cx.phase = "encrypted" /\ cx.altered = "no"
    /\ n < Len(cx.blob)
    /\ cx' = [cx EXCEPT !.blob = SubSeq(@, 1, n),
                        !.altered = IF n < NPUBBYTES + ABYTES THEN "short" ELSE "cut"]
    /\ CryptoOnly

\* decrypt(blob, key) returns or throws
CallDecrypt(key) ==
    /\ cx.phase = "encrypted"
    /\ cx' = [cx EXCEPT !.phase = "decrypted", !.with = key,
                        !.result = decryptBlob(cx.blob, key)]
    /\ CryptoOnly

InitCrypto ==
    /\ files = << >>
    /\ faultsLeft = 0
    /\ InitCommon

NextCrypto ==
    \/ \E plaintext \in Plaintexts, key \in CryptoKeys, r \in NonceDraws :
           CallEncrypt(plaintext, key, r)
    \/ \E p \in 1..(NPUBBYTES + MaxPlain + ABYTES) : FlipBit(p)
    \/ \E n \in 0..(NPUBBYTES + MaxPlain + ABYTES) : Truncate(n)
    \/ \E key \in CryptoKeys : CallDecrypt(key)

SpecCrypto == InitCrypto /\ [][NextCrypto]_vars

\* SpecIdle: an unlocked session on the Vault page; the clock, the idle timer, the
\* offline event, the browser's history buttons; folders are made meanwhile
InitIdle ==
    /\ files = << >>
    /\ faultsLeft = MaxFaults
    /\ InitCommon

NextIdle ==
    \/ \E d \in Durations : Pass(d)
    \/ IdleTick
    \/ Activity
    \/ StayLoggedIn
    \/ Offline
    \/ GoBack
    \/ GoForward
    \/ Logout("button")
    \/ OnVault /\ \E name \in FileNames : CreateFolder(name)
    \/ \E c \in calls : ManifestBegin(c)
    \/ \E c \in calls, fault \in Bool : ManifestFinish(c, fault)

SpecIdle == InitIdle /\ [][NextIdle]_vars

\* SpecManifest: the manifest functions applied one after the other, from the empty
\* manifest; the hooks and the store take no step
InitManifest ==
    /\ files = << >>
    /\ faultsLeft = 0
    /\ InitCommon

NextManifest ==
    \/ \E name \in EntryNames, parent \in {NullId} \cup FolderIds(forest) :
          NewFolder(name, parent)
    \/ \E name \in EntryNames, parent \in {NullId} \cup FolderIds(forest) :
          NewFile(name, parent)
    \/ \E name \in EntryNames, parent \in {NullId} \cup FolderIds(forest) :
          NewFolders(name, parent)
    \/ \E entryId \in EntryIds(forest) \cup {AbsentId} : RemoveEntry(entryId)
    \/ \E a \in EntryIds(forest), b \in EntryIds(forest) : RemoveEntries(<<a, b>>)
    \/ \E entryId \in EntryIds(forest), newName \in EntryNames :
          RenameEntry(entryId, newName)
    \/ \E entryId \in EntryIds(forest), newParentId \in {NullId} \cup EntryIds(forest) :
          MoveEntry(entryId, newParentId)
    \/ \E folderId \in {NullId} \cup FolderIds(forest) : GetEntriesInFolder(folderId)

SpecManifest == InitManifest /\ [][NextManifest]_vars

\* SpecSession: the VaultProvider after construction (locked, no vault in the store);
\* createVault, folders made on the Vault page, logout, unlockVault; no uploads
InitSession ==
    /\ files = << >>
    /\ faultsLeft = MaxFaults
    /\ uploadQueue = << >>
    /\ activeUploadsRef = 0
    /\ cancelledRef = {}
    /\ processingRef = {}
    /\ runs = {}
    /\ starts = << >>
    /\ uploadRecords = {}
    /\ blobs = {}
    /\ encryptionKeyRef = NoKey
    /\ vaultClientRef = FALSE
    /\ vaultUid = NoKey
    /\ manifestRef = << >>
    /\ storedManifest = encrypt(<< >>, NoKey)
    /\ manifestUpdateLockRef = ResolvedPromise
    /\ calls = {}
    /\ foldersMade = 0
    /\ nextFile = 1
    /\ attempts = << >>
    /\ cancelHist = {}
    /\ ended = << >>
    /\ dl = NoDl
    /\ delivered = NoData
    /\ forest = << >>
    /\ nextId = 0
    /\ out = NoOut
    /\ state = LoggedOut
    /\ vaultClientCache = {}
    /\ vaultRows = {}
    /\ keyHeap = << >>
    /\ keyObj = 0
    /\ op = NoOp
    /\ hist = NoHist
    /\ timer = NoTimer
    /\ cx = NoCx
    /\ del = NoDel

NextSession ==
    \/ \E seedPhrase \in CreateSeeds, fault \in Bool : CreateStart(seedPhrase, fault)
    \/ \E fault \in Bool : CreateInsert(fault)
    \/ \E fault \in Bool : CreateFinish(fault)
    \/ \E seedPhrase \in Seeds, fault \in Bool : UnlockStart(seedPhrase, fault)
    \/ \E answer \in {"row", "rejected", "garbled"} : UnlockFetch(answer)
    \/ \E fault \in Bool : UnlockFinish(fault)
    \/ \E trigger \in LogoutTriggers : Logout(trigger)
    \/ VaultPage /\ \E name \in FileNames : CreateFolder(name)
    \/ \E c \in calls : ManifestBegin(c)
    \/ \E c \in calls, fault \in Bool : ManifestFinish(c, fault)

SpecSession == InitSession /\ [][NextSession]_vars

\* ------------------------------------------------------------------ claims
WithStatus(status) == {i \in 1..Len(uploadQueue) : uploadQueue[i].status = status}
NoneEnded == \A id \in DOMAIN ended : ended[id] = {}

\* C1 (SpecQueue): in every state at most MAX_CONCURRENT_UPLOADS queue items have
\* status 'uploading'; and once files are enqueued, as long as no upload has ended and
\* no cancel was asked for, as many items as the cap allows are 'uploading' and
\* all the others are 'pending'.
C1_UploadCap ==
    /\ Cardinality(WithStatus("uploading")) <= MAX_CONCURRENT_UPLOADS
    /\ (Len(uploadQueue) > 0 /\ NoneEnded /\ cancelledRef = {}) =>
          /\ Cardinality(WithStatus("uploading")) =
                Min(MAX_CONCURRENT_UPLOADS, Len(uploadQueue))
          /\ Cardinality(WithStatus("pending")) =
                Len(uploadQueue) - Min(MAX_CONCURRENT_UPLOADS, Len(uploadQueue))

\* more files than slots were enqueued, one upload has ended and its slot was refilled
C1_Witness ==
    /\ Len(uploadQueue) > MAX_CONCURRENT_UPLOADS
    /\ ~NoneEnded
    /\ Cardinality(WithStatus("uploading")) = MAX_CONCURRENT_UPLOADS
    /\ Cardinality(WithStatus("pending")) = Len(uploadQueue) - MAX_CONCURRENT_UPLOADS

\* every manifest value that exists: in memory, in the store, or on its way there
AllManifests == {manifestRef, storedManifest.plain} \cup {c.value : c \in calls}
ChunkStored(fileUid, i) == \E b \in blobs : b.path = getChunkPath(vaultUid, fileUid, Num(i), Undefined)
HasEntry(manifest, fileUid) == \E e \in FileEntries(manifest) : e.file_uid = fileUid

\* C2 (SpecFile): whenever a manifest value (the one in memory, the stored one, or one
\* handed to updateManifest) holds a file entry made by an upload, every chunk index
\* 0..totalChunks-1 of that file is stored in the bucket.
C2_EntryAfterChunks ==
    \A m \in AllManifests : \A e \in FileEntries(m) :
        /\ e.chunk_count = calculateChunkCount(files[e.file_uid].size)
        /\ \A i \in 0..(e.chunk_count - 1) : ChunkStored(e.file_uid, i)

\* the entry of a three-chunk file has reached the manifest in memory and in the store
C2_Witness ==
    \E e \in FileEntries(manifestRef) :
        /\ e.chunk_count = 3
        /\ e \in FileEntries(storedManifest.plain)
        /\ \A i \in 0..2 : ChunkStored(e.file_uid, i)

\* C3 (SpecFile): an item cancelled while it was uploading with fewer than all of its
\* chunks stored never gets a manifest entry and its upload never ends as completed.
C3_CancelLeavesNoEntry ==
    \A id \in cancelHist :
        /\ \A m \in AllManifests : ~HasEntry(m, FileUid(id))
        /\ "completed" \notin ended[id]

Writing == {c \in calls : c.phase = "write"}

\* C4 (Spec): at most one updateManifest call is between its key read and the answer
\* of its store write; while it is, every other unfinished call was made after it and
\* is still waiting on an unresolved promise of the chain; the unfinished calls form
\* one chain in call order.
C4_OneWriterFifo ==
    /\ Cardinality(Writing) <= 1
    /\ Cardinality({c \in calls : c.prev = ResolvedPromise}) <= 1
    /\ \A c \in Writing : c.prev = ResolvedPromise
    /\ \A d \in calls : d.prev # ResolvedPromise =>
          /\ d.phase = "wait"
          /\ \E c \in calls : c.own = d.prev /\ c # d
    /\ calls # {} => \E c \in calls : c.own = manifestUpdateLockRef

\* one call is writing while a later call waits for it
C4_Witness ==
    \E c \in Writing : \E d \in calls : d.phase = "wait" /\ d.prev = c.own

\* C5 (Spec): once an upload has ended as completed, the manifest in memory and the
\* stored manifest hold a file entry for its file, whatever other manifest updates
\* were pending at the time.
C5_NoLostUpdate ==
    \A id \in DOMAIN files : "completed" \in ended[id] =>
        /\ HasEntry(manifestRef, FileUid(id))
        /\ HasEntry(storedManifest.plain, FileUid(id))

\* the delivered bytes are the file's bytes: every part comes from the file, lies at
\* the offset it was read from, and the parts add up to the file's size
IsWholeFile(data, id) ==
    /\ data.length = files[id].size
    /\ \A i \in 1..Len(data.parts) :
          /\ data.parts[i].chunk.file = id
          /\ data.parts[i].chunk.start = data.parts[i].offset
          /\ data.parts[i].chunk.end <= files[id].size

\* C6 (SpecDownload): when downloadFile on the entry of a completed upload has
\* returned without a store or decryption error, it has delivered the file's bytes.
C6_RoundTrip ==
    (dl.status \in {"completed", "invalid"} /\ "completed" \in ended[dl.entry.file_uid]) =>
        /\ dl.status = "completed"
        /\ IsWholeFile(delivered, dl.entry.file_uid)

CeilDiv(s) ==
    CHOOSE n \in 0..(s \div CHUNK_SIZE + 1) :
        n * CHUNK_SIZE >= s /\ (n = 0 \/ (n - 1) * CHUNK_SIZE < s)
BlobAt(id, i) == CHOOSE b \in blobs : b.path = getChunkPath(vaultUid, FileUid(id), Num(i), Undefined)

\* C7 (SpecDownload): after an upload of a file of size s has ended as completed, the
\* bucket holds exactly ceil(s / CHUNK_SIZE) chunks of the file, at the indices
\* 0..ceil(s / CHUNK_SIZE)-1, each with a plaintext of at most CHUNK_SIZE bytes and
\* s bytes in total, and every manifest entry of the file records that count and s.
C7_ChunkCount ==
    \A id \in DOMAIN files : "completed" \in ended[id] =>
        LET s == files[id].size
            n == CeilDiv(s)
        IN /\ Cardinality(StoredChunks(id)) = n
           /\ {b.path[3] : b \in StoredChunks(id)} = {ToString(i) : i \in 0..(n - 1)}
           /\ \A b \in StoredChunks(id) : ChunkLen(b.cipher.plain) <= CHUNK_SIZE
           /\ SumSeq([i \in 1..n |-> ChunkLen(BlobAt(id, i - 1).cipher.plain)]) = s
           /\ \A m \in AllManifests : \A e \in FileEntries(m) :
                 e.file_uid = FileUid(id) => e.chunk_count = n /\ e.size = s

\* a file of two and a half chunks was uploaded: three chunks stored, entry says 3
C7_Witness ==
    \E id \in DOMAIN files :
        /\ "completed" \in ended[id]
        /\ files[id].size = 2 * CHUNK_SIZE + CHUNK_SIZE \div 2
        /\ Cardinality(StoredChunks(id)) = 3
        /\ \E e \in FileEntries(manifestRef) :
              e.file_uid = FileUid(id) /\ e.chunk_count = 3 /\ e.size = files[id].size

StatusOf(queue, id) ==
    IF \E i \in 1..Len(queue) : queue[i].id = id
    THEN queue[CHOOSE i \in 1..Len(queue) : queue[i].id = id].status
    ELSE "absent"
AllowedStatusSteps ==
    {<<"absent", "pending">>, <<"absent", "uploading">>, <<"pending", "uploading">>,
     <<"uploading", "completed">>, <<"uploading", "error">>,
     <<"pending", "absent">>, <<"uploading", "absent">>,
     <<"completed", "absent">>, <<"error", "absent">>}

\* C8 (Spec): the status of an upload item changes only along pending -> uploading,
\* uploading -> completed, uploading -> error, or the item leaves the queue; and an
\* item that uploadFile has marked completed or error is not uploading or pending.
C8_StatusMachine ==
    [][\A id \in DOMAIN files :
          /\ \/ StatusOf(uploadQueue', id) = StatusOf(uploadQueue, id)
             \/ <<StatusOf(uploadQueue, id), StatusOf(uploadQueue', id)>>
                   \in AllowedStatusSteps
          /\ ended'[id] \cap {"completed", "error"} # {} =>
                StatusOf(uploadQueue', id) \notin {"uploading", "pending"}]_vars

WorkerSlots(id) == {rw \in runs \X Workers : rw[1].item = id}
InFlight(id) == {rw \in WorkerSlots(id) : rw[1].workers[rw[2]].pc \in {"put", "rpc"}}
Holding(id) ==
    {rw \in WorkerSlots(id) : rw[1].workers[rw[2]].pc \in {"put", "rpc", "backoff"}}

\* C9 (SpecFile): for every item at most MAX_CONCURRENT_CHUNKS workers are in a chunk
\* transfer at once, and no two workers hold the same chunk index of the item.
C9_ChunkCap ==
    \A id \in DOMAIN files :
        /\ Cardinality(InFlight(id)) <= MAX_CONCURRENT_CHUNKS
        /\ \A a \in Holding(id) : \A b \in Holding(id) :
              a # b => a[1].workers[a[2]].chunk # b[1].workers[b[2]].chunk

\* C10 (SpecFile): no chunk of an item is attempted more than MAX_RETRIES times; a
\* worker that waits before a retry waits RETRY_DELAY_MS times the number of failed
\* attempts; and an upload ends as error only if some chunk of the item has used up
\* all MAX_RETRIES attempts.
C10_RetryBound ==
    /\ \A id \in DOMAIN files : \A c \in DOMAIN attempts[id] :
          attempts[id][c] <= MAX_RETRIES
    /\ \A r \in runs : \A w \in Workers :
          r.workers[w].pc = "backoff" =>
              /\ r.workers[w].retries \in 1..(MAX_RETRIES - 1)
              /\ r.workers[w].delay = r.workers[w].retries * 1000
    /\ \A id \in DOMAIN files :
          "error" \in ended[id] =>
              \E c \in DOMAIN attempts[id] : attempts[id][c] >= MAX_RETRIES

\* C11 (SpecFile): once cancelUpload has been called for an item that is uploading
\* its chunks, no chunk attempt of that item (first attempt or retry) begins for as
\* long as the cancel is standing.
C11_NoAttemptAfterCancel ==
    [][\A id \in cancelledRef :
          (\E r \in runs : r.item = id /\ r.phase = "chunks") =>
              attempts'[id] = attempts[id]]_vars

\* C12 (SpecFile): an item whose cancel is standing does not have the status error.
C12_CancelledNotError ==
    \A id \in cancelledRef : StatusOf(uploadQueue, id) # "error"

HasRecord(rows, id) == \E row \in rows : row.file_uid = FileUid(id)
\* the step ends the run r: uploadFile returns in it
RunEnds(r) ==
    /\ r \in runs /\ r.phase # "ended"
    /\ \A r2 \in runs' : RunId(r2) = RunId(r) => r2.phase = "ended"

\* C13 (SpecFile): the step in which an upload goes from its record insert on to its
\* chunks leaves a record of the file with no received chunks; and the step in which
\* an upload ends leaves a record of the file exactly if it ends as error, which is
\* every end but the one after the record delete of a completion or of a cancel.
C13_RecordLifecycle ==
    [][\A r \in runs :
          /\ (/\ r.phase = "insert"
              /\ \E r2 \in runs' : RunId(r2) = RunId(r) /\ r2.phase \notin {"insert", "ended"})
                => \E row \in uploadRecords' :
                       row.file_uid = FileUid(r.item) /\ row.received = << >>
          /\ RunEnds(r) =>
                (HasRecord(uploadRecords', r.item) <=> r.phase \notin {"delrec", "canceldel"})]_vars

\* the step is the failing answer of the store to the row update of the call c
WriteFails(c) ==
    /\ c \in calls /\ c.phase = "write" /\ c \notin calls'
    /\ faultsLeft' = faultsLeft - 1

\* C16 (Spec): the step in which the store write of an updateManifest call fails
\* leaves the manifest in memory and the stored manifest as they were and makes the
\* calling upload end as error instead of going on; and the manifest in memory is at
\* all times the plaintext of the stored one, never the value of a failed call.
C16_FailedWriteKeepsManifest ==
    [][/\ \A c \in calls : WriteFails(c) =>
             /\ manifestRef' = manifestRef
             /\ storedManifest' = storedManifest
             /\ manifestRef' # c.value
             /\ \A r \in CallerRun(c) :
                   /\ "error" \in ended'[r.item]
                   /\ \A r2 \in runs' : RunId(r2) = RunId(r) => r2.phase = "ended"
       /\ manifestRef' = decrypt(storedManifest', encryptionKeyRef')]_vars

\* the one failing store call was the write of an upload's manifest update (the record
\* of its first run is there, the second run has not inserted yet): the upload has
\* ended as error and its file has no entry
C16_Witness ==
    \E id \in DOMAIN files :
        /\ faultsLeft = 0
        /\ "error" \in ended[id]
        /\ ended[id] = {"error"}
        /\ HasRecord(uploadRecords, id)
        /\ \E r \in runs : r.item = id /\ r.no = 2 /\ r.phase = "insert"
        /\ ~HasEntry(manifestRef, FileUid(id))
        /\ ~HasEntry(storedManifest.plain, FileUid(id))

ParentOf(manifest, id) == manifest[FindIndex(manifest, id)].parent
\* following the parent pointers from id reaches null within the given number of steps
RECURSIVE ReachesNull(_, _, _)
ReachesNull(manifest, id, steps) ==
    IF id = NullId THEN TRUE
    ELSE IF steps = 0 \/ id \notin EntryIds(manifest) THEN FALSE
    ELSE ReachesNull(manifest, ParentOf(manifest, id), steps - 1)
\* the parent pointers from id pass through ancestorId within the given number of steps
RECURSIVE Under(_, _, _, _)
Under(manifest, id, ancestorId, steps) ==
    IF steps = 0 \/ id \notin EntryIds(manifest) THEN FALSE
    ELSE \/ ParentOf(manifest, id) = ancestorId
         \/ Under(manifest, ParentOf(manifest, id), ancestorId, steps - 1)
\* a path that visits no entry twice has at most Len(manifest) entries
IsForest(manifest) ==
    /\ \A i \in 1..Len(manifest) : \A j \in 1..Len(manifest) :
          manifest[i].id = manifest[j].id => i = j
    /\ \A id \in EntryIds(manifest) : ReachesNull(manifest, id, Len(manifest))
\* a forest in which entries lie in folders
IsFolderForest(manifest) ==
    /\ IsForest(manifest)
    /\ \A i \in 1..Len(manifest) : manifest[i].parent \in {NullId} \cup FolderIds(manifest)
Subtree(manifest, entryId) ==
    {id \in EntryIds(manifest) :
        entryId \in EntryIds(manifest) /\
        (id = entryId \/ Under(manifest, id, entryId, Len(manifest)))}

C18_WitnessAbsent ==
    /\ out.op = "removeEntry" /\ IsFolderForest(out.before)
    /\ out.arg = AbsentId
    /\ Len(out.manifest) = 2

\* C19 (SpecManifest): getEntriesInFolder(manifest, p) returns the entries of the
\* manifest whose parent is p, all of them and each once, with no file before a folder.
C19_GetEntriesInFolder ==
    out.op = "getEntriesInFolder" =>
        LET inFolder == {e \in Range(out.before) : e.parent = out.arg}
        IN /\ Range(out.entries) = inFolder
           /\ Len(out.entries) = Cardinality(inFolder)
           /\ \A i \in 1..Len(out.entries) : \A j \in 1..Len(out.entries) :
                 (out.entries[i].type = "file" /\ out.entries[j].type = "folder") => j < i

\* a folder b that the manifest lists after a file a of the same parent is returned
\* before it, and an entry of another parent is left out
C19_Witness ==
    /\ out.op = "getEntriesInFolder"
    /\ Len(out.before) = 3 /\ Len(out.entries) = 2
    /\ out.entries[1].type = "folder" /\ out.entries[1].name = <<"b", 0>>
    /\ out.entries[2].type = "file" /\ out.entries[2].name = <<"a", 0>>
    /\ FindIndex(out.before, out.entries[2].id) < FindIndex(out.before, out.entries[1].id)

\* C20 (SpecManifest): after any sequence of the manifest functions from the empty
\* manifest, following the parent pointers from any entry reaches null without
\* visiting an entry twice.
C20_Forest == IsForest(forest)

LogoutStep == hist'.logout.n = hist.logout.n + 1

\* C15 (SpecSession): the step that is a call of logout, from the button, the idle
\* timer or the offline event, leaves the key array the session held zeroed, no key
\* and no client in the refs (getEncryptionKey() and getClient() return null), no
\* client of the vault in the client cache, and the state locked: isUnlocked false,
\* vaultUid null, manifest empty.
C15_LogoutLocks ==
    [][LogoutStep =>
          /\ keyObj # 0 /\ keyHeap'[keyObj].zeroed
          /\ encryptionKeyRef' = NoKey /\ keyObj' = 0
          /\ vaultClientRef' = FALSE
          /\ vaultUid \notin vaultClientCache'
          /\ state' = LoggedOut
          /\ vaultUid' = NoKey
          /\ manifestRef' = << >>]_vars

\* the idle timer has logged out a session whose manifest held a folder
C15_Witness ==
    /\ hist.logout.n >= 1 /\ hist.logout.trigger = "idle"
    /\ Len(hist.logout.manifest) = 1
    /\ state = LoggedOut /\ encryptionKeyRef = NoKey /\ manifestRef = << >>
    /\ keyHeap[hist.logout.key].zeroed

\* the step is the answer to createVault's insert that made the row
RowMade == vaultRows' # vaultRows
\* the step is the return of an unlockVault call with true
UnlockReturnsTrue == op.kind = "unlock" /\ op.phase = "limits" /\ op' = NoOp

\* C17 (SpecSession): the row createVault inserts holds a manifest that decrypts under
\* the key derived from the phrase to the empty manifest; and when unlockVault, called
\* in a session that logout had locked, with the phrase of that session, returns true,
\* the vault uid is the one of that session and the manifest is the manifest the
\* session held just before the logout - provided no createVault, unlockVault or
\* logout was called while an updateManifest call was unfinished.
C17_RoundTrip ==
    [][/\ RowMade =>
             /\ DecryptOk(storedManifest', deriveKeys(op.seed).encryptionKey)
             /\ decrypt(storedManifest', deriveKeys(op.seed).encryptionKey) = << >>
       /\ (/\ UnlockReturnsTrue
           /\ op.fromLocked /\ hist.logout.n >= 1
           /\ op.seed = hist.logout.seed
           /\ ~hist.overlap) =>
             /\ vaultUid' = hist.logout.uid
             /\ manifestRef' = hist.logout.manifest
             /\ state'.isUnlocked]_vars

\* a vault was created, a folder was made in it, the session was logged out and
\* unlocked again with the same phrase: the folder is in the manifest
C17_Witness ==
    /\ hist.logout.n = 1 /\ ~hist.overlap
    /\ hist.unlock.result = "true" /\ hist.unlock.fromLocked
    /\ hist.seed = hist.logout.seed
    /\ Len(hist.logout.manifest) = 1
    /\ manifestRef = hist.logout.manifest
    /\ state.isUnlocked

SiblingsUnique(manifest) ==
    \A i \in 1..Len(manifest) : \A j \in 1..Len(manifest) :
        (i # j /\ manifest[i].parent = manifest[j].parent) =>
            toLowerCase(manifest[i].name) # toLowerCase(manifest[j].name)

StoredPlain(i) ==
    decrypt((CHOOSE b \in blobs :
                b.path = getChunkPath(vaultUid, dl.entry.file_uid, Num(i), Undefined)).cipher, dl.key)

\* C22 (SpecDownload): while downloadFile is at index i it has fetched and decrypted
\* exactly the chunks 0..i-1, one after the other and in that order, and holds at most
\* the one fetched chunk of index i; when it has completed it has taken all chunk_count
\* chunks and has delivered their concatenation in index order.
C22_Sequential ==
    /\ dl.status \in {"downloading", "decrypting", "completed", "error"} =>
          /\ Len(dl.chunks) = dl.i
          /\ \A k \in 1..Len(dl.chunks) : dl.chunks[k] = StoredPlain(k - 1)
    /\ dl.status \in {"downloading", "decrypting"} => dl.i < dl.entry.chunk_count
    /\ dl.status = "decrypting" => dl.cipher.plain = StoredPlain(dl.i)
    /\ dl.status = "completed" =>
          /\ dl.i = dl.entry.chunk_count
          /\ delivered = concatenateChunks([k \in 1..dl.i |-> StoredPlain(k - 1)])
          /\ \A k \in 1..dl.i : delivered.parts[k].offset = (k - 1) * CHUNK_SIZE
    /\ dl.status # "completed" => delivered = NoData

\* a file of four chunks has been downloaded and delivered
C22_Witness ==
    /\ dl.status = "completed"
    /\ dl.entry.chunk_count = 4
    /\ Len(delivered.parts) = 4
    /\ delivered.length = 3 * CHUNK_SIZE + 1

\* the step is the answer of a store call that failed, and no call of the upload side
FetchFailed == faultsLeft' < faultsLeft /\ runs' = runs /\ calls' = calls

\* C23 (SpecDownload): when the fetch of a chunk is rejected the download's status is
\* 'error' at once, when the fetched bytes do not decrypt it is 'error' after the
\* decryption; from then on this call fetches nothing (only a new downloadFile call
\* changes the download) and nothing has been delivered.
C23_FailStops ==
    [][/\ (dl.status = "downloading" /\ FetchFailed) =>
             /\ dl'.status \in {"error", "decrypting"}
             /\ dl'.status = "decrypting" => ~DecryptOk(dl'.cipher, dl'.key)
             /\ dl'.i = dl.i /\ dl'.chunks = dl.chunks
       /\ (dl.status = "decrypting" /\ ~DecryptOk(dl.cipher, dl.key) /\ dl' # dl) =>
             dl'.status = "error" /\ dl'.i = dl.i /\ dl'.chunks = dl.chunks
       /\ dl'.status = "error" => delivered' = NoData
       /\ (dl.status = "error" /\ dl' # dl) =>
             /\ dl'.status \in {"downloading", "invalid", "locked"}
             /\ dl'.i = 0 /\ dl'.chunks = << >>]_vars

\* the third chunk of a download did not decrypt: two chunks held, nothing delivered
C23_Witness ==
    /\ dl.status = "error"
    /\ dl.i = 2
    /\ Len(dl.chunks) = 2
    /\ dl.entry.chunk_count >= 3
    /\ faultsLeft = 0
    /\ delivered = NoData

\* ------------------------------------------------------------ C26, C27 (SpecIdle)
\* the time since the last activity event that was registered
IdleTime == timer.now - timer.lastActivityRef

\* C26 (SpecIdle): while the session is unlocked, once no activity event has been
\* registered for IDLE_TIMEOUT_MS the idle timer calls logout at its next tick of one
\* second, whatever updateManifest calls are unfinished - so an unlocked session is
\* never idle for the timeout and a whole tick more; and a logout by the idle timer
\* happens only at an idle time of at least IDLE_TIMEOUT_MS.
C26_IdleLogout ==
    /\ state.isUnlocked => IdleTime < IDLE_TIMEOUT_MS + IDLE_CHECK_MS
    /\ (hist.logout.n >= 1 /\ hist.logout.trigger = "idle") => IdleTime >= IDLE_TIMEOUT_MS

\* the step is an offline event of the window
OfflineEvent == timer'.offlines = timer.offlines + 1

\* C27 (SpecIdle): an offline event in an unlocked session ends in the locked state
\* with the key zeroed and the refs empty, whatever updateManifest calls are
\* unfinished; an offline event in a locked session changes nothing of the session.
C27_OfflineLocks ==
    [][OfflineEvent =>
          IF state.isUnlocked
          THEN /\ state' = LoggedOut
               /\ keyHeap'[keyObj].zeroed
               /\ encryptionKeyRef' = NoKey /\ vaultClientRef' = FALSE
          ELSE UNCHANGED <<state, keyHeap, keyObj, encryptionKeyRef, vaultClientRef,
                           vaultUid, manifestRef, vaultClientCache>>]_vars

\* ------------------------------------------------------------ C24 (SpecCrypto)
\* C24 (SpecCrypto): decrypt(encrypt(P, K), K) returns P for every plaintext P and
\* key K; and decrypt throws, returning no plaintext, for a blob shorter than nonce
\* and tag together (40 bytes), for a blob with a bit flipped in its tag, and for a
\* blob that was encrypted under another key.
C24_RoundTrip ==
    cx.phase = "decrypted" =>
        /\ (cx.altered = "no" /\ cx.with = cx.key) =>
               cx.result = Resolved(cx.plaintext)
        /\ (cx.altered \in {"short", "tag"} \/ cx.with # cx.key) =>
               ~cx.result.ok /\ cx.result.data = << >> /\ cx.result.error # ""

\* a plaintext of the largest size came back from its own blob and key
C24_Witness ==
    /\ cx.phase = "decrypted" /\ cx.altered = "no" /\ cx.with = cx.key
    /\ Len(cx.plaintext) = MaxPlain /\ cx.plaintext[1] # cx.plaintext[MaxPlain]
    /\ cx.result.ok /\ cx.result.data = cx.plaintext
    /\ Len(cx.blob) = NPUBBYTES + MaxPlain + ABYTES

\* ------------------------------------------------------------ C25 (SpecDownload)
\* chunk_path_pepper values a vault may hold
Peppers == {"p1", "p2"}

\* the chunks of the files in the manifest: file uid and index
ChunkRefs ==
    UNION {{<<e.file_uid, i>> : i \in 0..(e.chunk_count - 1)} :
              e \in FileEntries(manifestRef)}

\* C25 (SpecDownload): the storage path of a chunk (vault uid, file uid, index) is the
\* same where upload, download and delete compute it, and two distinct pairs of file
\* uid and index never get the same path within the vault.
C25_Addressing ==
    \A pepper \in Peppers :
        /\ \A c \in ChunkRefs : DeletePath(c[1], pepper, c[2]) = TransferPath(c[1], c[2])
        /\ \A c, d \in ChunkRefs :
               c # d => /\ TransferPath(c[1], c[2]) # TransferPath(d[1], d[2])
                        /\ DeletePath(c[1], pepper, c[2]) # DeletePath(d[1], pepper, d[2])

\* ------------------------------------------------------------ C28, C29 (SpecQueue)
\* the items of the queue that are pending and were never started
Waiting == {id \in DOMAIN files : starts[id] = 0 /\ StatusOf(uploadQueue, id) = "pending"}

\* C28 (SpecQueue): every enqueued item is started in the end, because whenever an
\* upload finishes while items are pending that were never started, the slot it frees
\* goes to one of those items in the same step.
C28_SlotToWaiting ==
    [][\A r \in runs :
          (RunEnds(r) /\ Waiting # {}) => \E id \in Waiting : starts'[id] = 1]_vars

\* C29 (SpecQueue): uploadFile is invoked at most once for a queue item, whatever the
\* item's status has become.
C29_StartedOnce == \A id \in DOMAIN files : starts[id] <= 1

\* ------------------------------------------------------------ C30 (SpecFile)
\* store calls that have failed transiently so far
FaultsSoFar == MaxFaults - faultsLeft

\* C30 (SpecFile): a worker gives up on a chunk - and with it the item fails - only
\* when the store's fault lasted through all MAX_RETRIES attempts of the chunk; after
\* fewer transient failures a later attempt succeeds and the chunk counts as uploaded.
\* Stated for the first uploadFile invocation of an item.
C30_TransientRecovered ==
    \A r \in runs : \A w \in Workers :
        (r.no = 1 /\ r.workers[w].pc = "thrown") => FaultsSoFar >= MAX_RETRIES

\* ------------------------------------------------------------ C33 (SpecFile)
\* worker w of run r issues a store call in this step: a put (first attempt of the next
\* chunk, or a retry) or the append-index rpc that follows a put
IssuesCall(r, w) ==
    \E r2 \in runs' :
        /\ RunId(r2) = RunId(r)
        /\ r2.workers[w] # r.workers[w]
        /\ r2.workers[w].pc \in {"put", "rpc"}

\* C33 (SpecFile): once an upload has ended in error or cancellation (status set or
\* item removed, slot released), none of its chunk workers issues a further chunk put
\* or append-index call.
C33_WorkersStop ==
    [][\A r \in runs :
          (Zombie(r) /\ ended[r.item] \cap {"error", "cancelled"} # {}) =>
              \A w \in Workers : ~IssuesCall(r, w)]_vars

\* ------------------------------------------------------------ C35 (SpecFile)
\* C35 (SpecFile): in every upload record received_chunks holds no index twice, only
\* indices of [0, total_chunks), and only indices whose chunk is stored at its path;
\* appending an index that is already there leaves the record as it is.
C35_ReceivedChunks ==
    \A row \in uploadRecords :
        /\ \A i, j \in 1..Len(row.received) : row.received[i] = row.received[j] => i = j
        /\ \A i \in 1..Len(row.received) :
              /\ row.received[i] \in 0..(row.total_chunks - 1)
              /\ ChunkStored(row.file_uid, row.received[i])
              /\ append_received_chunk({row}, row.file_uid, row.received[i]) = {row}

\* all three chunks of the file are in its record, one of them after a failed attempt
C35_Witness ==
    \E row \in uploadRecords :
        /\ Len(row.received) = 3
        /\ faultsLeft < MaxFaults
        /\ \A i \in 0..2 : ChunkStored(row.file_uid, i)

\* ------------------------------------------------------------ C34 (SpecQueue)
\* the step is cancelUpload(id) on an item that is pending
CancelsPending(id) ==
    /\ StatusOf(uploadQueue, id) = "pending"
    /\ id \notin cancelledRef /\ id \in cancelledRef'

\* C34 (SpecQueue): cancelUpload(id) on a pending item drops the item from the queue,
\* and an item cancelled before its first start is never handed to uploadFile.
C34_CancelPending ==
    [][\A id \in DOMAIN files :
          /\ CancelsPending(id) => StatusOf(uploadQueue', id) = "absent"
          /\ (starts[id] = 0 /\ id \in cancelledRef) => starts'[id] = 0]_vars

\* ------------------------------------------------------------ C32 (SpecSession)
\* updateManifest calls made before the last logout and not finished yet
FromEarlierSession == {c \in calls : c.epoch < hist.logout.n}

\* C32 (SpecSession): once a session is unlocked again after a logout, an updateManifest
\* call that was in flight at that logout changes neither the in-memory manifest nor
\* the stored manifest when it finishes.
C32_NoCarryOver ==
    [][\A c \in FromEarlierSession :
          (state.isUnlocked /\ c \notin calls' /\ c.own \notin {x.own : x \in calls'}) =>
              /\ manifestRef' = manifestRef
              /\ storedManifest' = storedManifest]_vars

\* ------------------------------------------------------------ C36 (SpecChain)
\* SpecChain: two uploads of empty files and a folder creation meet at the manifest, and
\* the logout button, so that a call can find the vault locked when its turn comes.
\* A continuation after `await previousUpdate` runs once the promise is resolved, and
\* the store answers every request (with data or with an error): weak fairness of the
\* two steps of updateManifest.
InitChain ==
    /\ files = [k \in 1..MaxItems |-> [size |-> 0, name |-> "a", parent |-> NullId]]
    /\ faultsLeft = MaxFaults
    /\ InitCommon

NextChain ==
    \/ \E k \in 1..Len(files) : AddToQueue(k)
    \/ \E r \in runs, fault \in Bool : InsertRecord(r, fault)
    \/ \E r \in runs, fault \in Bool : DelRecDone(r, fault)
    \/ \E c \in calls : ManifestBegin(c)
    \/ \E c \in calls, fault \in Bool : ManifestFinish(c, fault)
    \/ OnVault /\ \E name \in FileNames : CreateFolder(name)
    \/ Logout("button")

SpecChain ==
    /\ InitChain
    /\ [][NextChain]_vars
    /\ WF_vars(\E c \in calls : ManifestBegin(c))
    /\ WF_vars(\E c \in calls, fault \in Bool : ManifestFinish(c, fault))

\* the names the updateManifest calls can have: the folder creations and the upload runs
CallIds ==
    {FolderCaller(k) : k \in 1..MaxFolders} \cup
    {<<id, no>> : id \in 1..MaxItems, no \in 1..(MaxStarts + 1)}
Unfinished(id) == \E c \in calls : c.own = id

\* C36 (SpecChain): every updateManifest call gets its turn and finishes, whatever
\* calls before it have thrown (store error, or "Vault not unlocked"); no call waits
\* forever.
C36_ChainGoesOn == \A id \in CallIds : Unfinished(id) ~> ~Unfinished(id)

\* a call made after an earlier call had thrown has had its turn and has returned
C36_Witness == hist.failed /\ hist.passed /\ calls = {}

\* ------------------------------------------------------------ C39 (SpecSession)
\* the session call that is about to return true: derive, store and decrypt are done
Completing ==
    \/ op.kind = "create" /\ op.phase = "grant"
    \/ op.kind = "unlock" /\ op.phase = "limits"

CallFails == op # NoOp /\ op' = NoOp /\ ~Completing

\* C40 (SpecSession): when createVault or unlockVault fails, a session that was not
\* unlocked stays so, the key the call derived is zeroed, the session holds neither
\* that key nor a client, and the vault row in the store is as it was.
C40_FailureLeavesNothing ==
    [][CallFails =>
          /\ op.fromLocked => ~state'.isUnlocked
          /\ keyHeap'[op.key].zeroed
          /\ keyObj' # op.key
          /\ op.fromLocked => (encryptionKeyRef' = NoKey /\ ~vaultClientRef')
          /\ vaultRows' = vaultRows
          /\ storedManifest' = storedManifest]_vars

\* ------------------------------------------------------------ C31 (SpecLogout)
\* SpecLogout: one file of three chunks is uploaded, a folder is made, and the logout
\* button is pressed at any moment
NextLogout ==
    \/ \E k \in 1..Len(files) : AddToQueue(k)
    \/ \E r \in runs, fault \in Bool : InsertRecord(r, fault)
    \/ \E r \in runs, w \in Workers, fault \in Bool : ChunkPut(r, w, fault)
    \/ \E r \in runs, w \in Workers, fault \in Bool : ChunkAppend(r, w, fault)
    \/ \E r \in runs, w \in Workers : BackoffDone(r, w)
    \/ \E r \in runs, fault \in Bool : DelRecDone(r, fault)
    \/ \E c \in calls : ManifestBegin(c)
    \/ \E c \in calls, fault \in Bool : ManifestFinish(c, fault)
    \/ OnVault /\ \E name \in FileNames : CreateFolder(name)
    \/ Logout("button")

SpecLogout == InitFile /\ [][NextLogout]_vars

\* C31 (SpecLogout): every chunk blob in the bucket and the stored manifest are
\* encrypted under the key derived for the session; nothing is stored that was
\* encrypted under the zeroed key.
C31_SessionKeyOnly ==
    /\ \A b \in blobs : b.cipher.key = SessionKey
    /\ storedManifest.key = SessionKey

\* ------------------------------------------------------- C37, C38 (SpecDelete)
\* SpecDelete: the user makes a folder, uploads one file of two chunks from the root or
\* from inside the folder, and deletes entries of the listing while that goes on
FolderOne == <<"folder", 1, 0>>
InitDelete ==
    /\ files \in [1..1 -> [size : {CHUNK_SIZE + 1}, name : FileNames,
                           parent : {NullId, FolderOne}]]
    /\ faultsLeft = MaxFaults
    /\ InitCommon

\* the folder the Vault page shows when the next file is picked is one of the manifest
InFolderShown ==
    /\ nextFile <= Len(files)
    /\ files[nextFile].parent \in {NullId} \cup FolderIds(manifestRef)

NextDelete ==
    \/ \E name \in FileNames : CreateFolder(name)
    \/ InFolderShown /\ AddToQueue(1)
    \/ \E r \in runs, fault \in Bool : InsertRecord(r, fault)
    \/ \E r \in runs, w \in Workers, fault \in Bool : ChunkPut(r, w, fault)
    \/ \E r \in runs, w \in Workers, fault \in Bool : ChunkAppend(r, w, fault)
    \/ \E r \in runs, w \in Workers : BackoffDone(r, w)
    \/ \E r \in runs, fault \in Bool : DelRecDone(r, fault)
    \/ \E c \in calls : ManifestBegin(c)
    \/ \E c \in calls, fault \in Bool : ManifestFinish(c, fault)
    \/ \E entryId \in EntryIds(manifestRef), pepper \in Peppers : ConfirmDelete(entryId, pepper)
    \/ \E fault \in Bool : DeleteRemoved(fault)

SpecDelete == InitDelete /\ [][NextDelete]_vars

====
